---- MODULE Spec2Model ----
(***************************************************************************)
(* A model of the id-contact core: the purpose / method registries built   *)
(* from the raw configuration (config.rs), the signed url-state codec      *)
(* (config.rs), and the session start orchestration (start.rs with         *)
(* methods/auth.rs and methods/comm.rs).                                   *)
(*                                                                         *)
(* Six specifications share the variables:                                 *)
(*   SpecBoot   construction of CoreConfig from a RawCoreConfig, followed  *)
(*              by registry lookups;                                       *)
(*   SpecCodec  encode_urlstate / decode_urlstate against a clock;         *)
(*   Spec       a start request, in any of its shapes and over any of its  *)
(*              routes, driven through the providers;                      *)
(*   SpecShim   AuthenticationMethod::start followed, as the clock         *)
(*              advances, by the attribute-shim callback;                  *)
(*   SpecOptions  construction followed by session_options;                *)
(*   SpecServe  any handler, interleaved with a registry lookup of         *)
(*              another request.                                           *)
(* A handler runs at one instant of the clock: the successive reads of     *)
(* SystemTime::now() inside one call are taken to return the same time.    *)
(***************************************************************************)
EXTENDS Integers, Sequences, FiniteSets, TLC

VARIABLES
    raw,        \* the RawCoreConfig handed to From<RawCoreConfig>
    booted,     \* "raw" before construction, then "ok" or "panic"
    config,     \* the CoreConfig (empty registries unless booted = "ok")
    keyorder,   \* the iteration orders of the two method HashMaps
    lookup,     \* the last registry lookup and its result
    now,        \* the clock, in ticks (TicksPerSec ticks to the second)
    ticks,      \* how many times the clock has advanced
    token,      \* the url-state token under consideration
    enc,        \* the last encode_urlstate call: its input, time and result
    dec,        \* the last decode_urlstate call: its time and result
    pc,         \* position of the start request handler
    req,        \* the start request being handled
    calls,      \* the outbound HTTP calls of this request, in order of issue
    comm_data,  \* the StartCommResponse held by session_start_full
    response,   \* the handler's result
    inbound,    \* the inbound HTTP request being handled, as it arrived
    reply       \* the HTTP response that the caller is sent

vars == <<raw, booted, config, keyorder, lookup, now, ticks, token, enc, dec,
          pc, req, calls, comm_data, response, inbound, reply>>

bootVars == <<raw, booted, config, keyorder, lookup>>
codecVars == <<now, ticks, token, enc, dec>>
startVars == <<pc, req, calls, comm_data, response, inbound, reply>>

(***************************************************************************)
(* Results and errors (error.rs).                                          *)
(***************************************************************************)
Ok(v) == [ok |-> TRUE, val |-> v]

Err(kind, arg) == [ok |-> FALSE, err |-> kind, arg |-> arg]

None == [some |-> FALSE]

Some(v) == [some |-> TRUE, val |-> v]

Range(s) == {s[i] : i \in DOMAIN s}

(***************************************************************************)
(* Bounds of the raw configurations.                                       *)
(***************************************************************************)
MaxPurposes == 2

(***************************************************************************)
(* Method descriptors (methods/auth.rs, methods/comm.rs) and purposes.     *)
(***************************************************************************)
\* The name and the image path of a method are strings of the configuration;
\* here each is told apart by the record it was configured in.
AuthenticationMethod(tag, start, disable_attr_url, shim_tel_url) ==
    [tag |-> tag, name |-> <<"name", start>>,
     image_path |-> <<"image", start>>, start |-> start,
     disable_attr_url |-> disable_attr_url, shim_tel_url |-> shim_tel_url]

CommunicationMethod(tag, start, disable_attributes_at_start) ==
    [tag |-> tag, name |-> <<"name", start>>,
     image_path |-> <<"image", start>>, start |-> start,
     disable_attributes_at_start |-> disable_attributes_at_start]

Purpose(tag, attributes, allowed_auth, allowed_comm) ==
    [tag |-> tag, attributes |-> attributes,
     allowed_auth |-> allowed_auth, allowed_comm |-> allowed_comm]

RawCoreConfig(auth_methods, comm_methods, purposes) ==
    [auth_methods |-> auth_methods, comm_methods |-> comm_methods,
     purposes |-> purposes,
     authonly_request_keys |-> [test |-> "test_key"],
     internal_secret |-> "sample_secret",
     server_url |-> "https://core",
     ui_tel_url |-> "https://ui/tel/"]

\* The raw method lists: one tag, two tags, and a tag given twice.
RawAuthLists ==
    { <<AuthenticationMethod("irma", "http://irma", FALSE, FALSE)>>,
      <<AuthenticationMethod("irma", "http://irma", FALSE, FALSE),
        AuthenticationMethod("digid", "http://digid", FALSE, FALSE)>>,
      <<AuthenticationMethod("irma", "http://irma", FALSE, FALSE),
        AuthenticationMethod("irma", "http://irma2", TRUE, FALSE)>> }

RawCommLists ==
    { <<CommunicationMethod("call", "http://call", FALSE)>>,
      <<CommunicationMethod("call", "http://call", FALSE),
        CommunicationMethod("chat", "http://chat", TRUE)>> }

AllowedAuthLists ==
    { <<"irma">>, <<"*">>, <<"digid", "irma">>, <<"digid", "*">> }

AllowedCommLists == { <<"call">>, <<"chat">>, <<"*">> }

PurposeTags == {"report_move", "request_passport"}

\* The two allow-lists are handled independently of each other: a raw purpose
\* varies one of them, or has the wildcard in both.
AllowedPairs ==
    { <<a, <<"call">>>> : a \in AllowedAuthLists }
    \cup { <<<<"irma">>, c>> : c \in AllowedCommLists }
    \cup { <<<<"*">>, <<"*">>>> }

\* The raw purposes; one of them has the wildcard of its comm list next to
\* the tag of no method.
RawPurposes ==
    { Purpose(t, <<"email">>, ac[1], ac[2]) :
        t \in PurposeTags, ac \in AllowedPairs }
    \cup { Purpose("request_passport", <<"email">>, <<"irma">>,
                   <<"nope", "*">>) }

SeqsUpTo(S, n) == UNION { [1..k -> S] : k \in 0..n }

RawConfigs ==
    { RawCoreConfig(a, c, p) :
        a \in RawAuthLists, c \in RawCommLists,
        p \in SeqsUpTo(RawPurposes, MaxPurposes) }

(***************************************************************************)
(* config.rs: From<RawCoreConfig> for CoreConfig.                          *)
(***************************************************************************)
contains_wildcard(target) == \E i \in DOMAIN target : target[i] = "*"

validate_methods(target, options) ==
    \A i \in DOMAIN target : target[i] \in DOMAIN options

\* .into_iter().map(|m| (m.tag, m)).collect() into a HashMap: a later record
\* replaces an earlier one with the same tag.
collect_by_tag(list) ==
    [t \in {list[i].tag : i \in DOMAIN list} |->
        list[CHOOSE i \in DOMAIN list :
                /\ list[i].tag = t
                /\ \A j \in DOMAIN list : list[j].tag = t => j <= i]]

\* The orders in which HashMap::keys() may yield the keys of a map.
KeyOrders(map) ==
    {s \in [1..Cardinality(DOMAIN map) -> DOMAIN map] : Range(s) = DOMAIN map}

\* A variant that replaces the lists whether or not they hold a wildcard.
expand_wildcards_always(purposes, auth_keys, comm_keys) ==
    [k \in DOMAIN purposes |->
        [purposes[k] EXCEPT !.allowed_auth = auth_keys,
                            !.allowed_comm = comm_keys]]

\* A variant that puts the keys in the place of the wildcard and keeps the
\* other entries.
expand_wildcards_in_place(purposes, auth_keys, comm_keys) ==
    [k \in DOMAIN purposes |->
        [purposes[k] EXCEPT
            !.allowed_auth =
                IF contains_wildcard(@)
                    THEN SelectSeq(@, LAMBDA t : t # "*") \o auth_keys ELSE @,
            !.allowed_comm =
                IF contains_wildcard(@)
                    THEN SelectSeq(@, LAMBDA t : t # "*") \o comm_keys ELSE @]]

\* Handle wildcards in purpose auth and comm method lists.
expand_wildcards(purposes, auth_keys, comm_keys) ==
    [k \in DOMAIN purposes |->
        [purposes[k] EXCEPT
            !.allowed_auth = IF contains_wildcard(@) THEN auth_keys ELSE @,
            !.allowed_comm = IF contains_wildcard(@) THEN comm_keys ELSE @]]

\* A variant that checks the auth lists only.
all_methods_exist_auth_only(purposes, auth_methods, comm_methods) ==
    \A k \in DOMAIN purposes :
        validate_methods(purposes[k].allowed_auth, auth_methods)

\* check all mentioned auth and comm methods exist
all_methods_exist(purposes, auth_methods, comm_methods) ==
    \A k \in DOMAIN purposes :
        /\ validate_methods(purposes[k].allowed_auth, auth_methods)
        /\ validate_methods(purposes[k].allowed_comm, comm_methods)

EmptyConfig ==
    [auth_methods |-> <<>>, comm_methods |-> <<>>, purposes |-> <<>>,
     authonly_request_keys |-> <<>>,
     internal_secret |-> "", server_url |-> "", ui_tel_url |-> ""]

\* The CoreConfig built from r, before the final check; auth_keys and
\* comm_keys are the key orders of the two method maps.
CoreConfigFrom(r, auth_keys, comm_keys) ==
    [auth_methods |-> collect_by_tag(r.auth_methods),
     comm_methods |-> collect_by_tag(r.comm_methods),
     purposes |-> expand_wildcards(collect_by_tag(r.purposes),
                                   auth_keys, comm_keys),
     authonly_request_keys |-> r.authonly_request_keys,
     internal_secret |-> r.internal_secret,
     server_url |-> r.server_url,
     ui_tel_url |-> r.ui_tel_url]

\* Whether construction returns (TRUE) or panics (FALSE).
ConstructionSucceeds(c) ==
    all_methods_exist(c.purposes, c.auth_methods, c.comm_methods)

(***************************************************************************)
(* config.rs: CoreConfig::purpose, comm_method, auth_method.               *)
(***************************************************************************)
\* A variant that answers a registered tag with whichever purpose the map
\* yields first.
purpose_whichever(cfg, tag) ==
    IF tag \in DOMAIN cfg.purposes
        THEN Ok(cfg.purposes[CHOOSE k \in DOMAIN cfg.purposes : TRUE])
        ELSE Err("NoSuchPurpose", tag)

purpose(cfg, tag) ==
    IF tag \in DOMAIN cfg.purposes
        THEN Ok(cfg.purposes[tag])
        ELSE Err("NoSuchPurpose", tag)

\* A variant that consults the registry without the purpose's allow-list.
comm_method_any_purpose(cfg, p, tag) ==
    IF tag \in DOMAIN cfg.comm_methods
        THEN Ok(cfg.comm_methods[tag])
        ELSE Err("NoSuchMethod", tag)

comm_method(cfg, p, tag) ==
    IF ~(\E i \in DOMAIN p.allowed_comm : p.allowed_comm[i] = tag)
        THEN Err("NoSuchMethod", tag)
    ELSE IF tag \in DOMAIN cfg.comm_methods
        THEN Ok(cfg.comm_methods[tag])
        ELSE Err("NoSuchMethod", tag)

\* A variant that consults the registry without the purpose's allow-list.
auth_method_any_purpose(cfg, p, tag) ==
    IF tag \in DOMAIN cfg.auth_methods
        THEN Ok(cfg.auth_methods[tag])
        ELSE Err("NoSuchMethod", tag)

auth_method(cfg, p, tag) ==
    IF ~(\E i \in DOMAIN p.allowed_auth : p.allowed_auth[i] = tag)
        THEN Err("NoSuchMethod", tag)
    ELSE IF tag \in DOMAIN cfg.auth_methods
        THEN Ok(cfg.auth_methods[tag])
        ELSE Err("NoSuchMethod", tag)

\* The method tags a caller may ask for.
TagInputs == {"irma", "digid", "call", "chat", "*", "nope"}

NoLookup == [kind |-> "none"]

(***************************************************************************)
(* SpecBoot: construction, then lookups.                                   *)
(***************************************************************************)
NoToken == [kind |-> "none"]

NoCall == [kind |-> "none"]

NoRequest == [kind |-> "none"]

NoReply == [kind |-> "none"]

InitRest ==
    /\ now = 0
    /\ ticks = 0
    /\ token = NoToken
    /\ enc = NoCall
    /\ dec = NoCall
    /\ pc = "idle"
    /\ req = NoRequest
    /\ calls = <<>>
    /\ comm_data = None
    /\ response = None
    /\ inbound = NoRequest
    /\ reply = NoReply

InitBoot ==
    /\ raw \in RawConfigs
    /\ booted = "raw"
    /\ config = EmptyConfig
    /\ keyorder = <<>>
    /\ lookup = NoLookup
    /\ InitRest

Boot ==
    /\ booted = "raw"
    /\ \E auth_keys \in KeyOrders(collect_by_tag(raw.auth_methods)),
          comm_keys \in KeyOrders(collect_by_tag(raw.comm_methods)) :
          LET c == CoreConfigFrom(raw, auth_keys, comm_keys) IN
            /\ keyorder' = <<auth_keys, comm_keys>>
            /\ IF ConstructionSucceeds(c)
                 THEN booted' = "ok" /\ config' = c
                 ELSE booted' = "panic" /\ config' = EmptyConfig
    /\ UNCHANGED <<raw, lookup>>
    /\ UNCHANGED codecVars
    /\ UNCHANGED startVars

LookupAuth ==
    /\ booted = "ok"
    /\ \E p \in DOMAIN config.purposes, t \in TagInputs :
          lookup' = [kind |-> "auth", purpose |-> p, tag |-> t,
                     result |-> auth_method(config, config.purposes[p], t)]
    /\ UNCHANGED <<raw, booted, config, keyorder>>
    /\ UNCHANGED codecVars
    /\ UNCHANGED startVars

LookupComm ==
    /\ booted = "ok"
    /\ \E p \in DOMAIN config.purposes, t \in TagInputs :
          lookup' = [kind |-> "comm", purpose |-> p, tag |-> t,
                     result |-> comm_method(config, config.purposes[p], t)]
    /\ UNCHANGED <<raw, booted, config, keyorder>>
    /\ UNCHANGED codecVars
    /\ UNCHANGED startVars

NextBoot == Boot \/ LookupAuth \/ LookupComm

SpecBoot == InitBoot /\ [][NextBoot]_vars

(***************************************************************************)
(* The clock.  Time is counted in ticks, TicksPerSec to the second, so     *)
(* that SystemTime::now() has a finer resolution than the whole seconds    *)
(* of the iat and exp claims.                                              *)
(***************************************************************************)
TicksPerSec == 2

MaxTicks == 3

\* Duration::from_secs(30 * 60)
UrlStateValiditySecs == 30 * 60

Secs(n) == n * TicksPerSec

\* duration_since(UNIX_EPOCH).as_secs(): the whole seconds of a time
AsSecs(t) == t \div TicksPerSec

StartTimes == 0..TicksPerSec

ClockSteps == {1, Secs(UrlStateValiditySecs - 1), Secs(UrlStateValiditySecs)}

(***************************************************************************)
(* JSON values and JWT payloads (josekit, as used by config.rs).           *)
(***************************************************************************)
Str(s) == [str |-> s]

Num(n) == [num |-> n]

IsStr(v) == DOMAIN v = {"str"}

IsNum(v) == DOMAIN v = {"num"}

MapsOver(K, V) == UNION { [S -> V] : S \in SUBSET K }

Put(map, k, v) == [x \in DOMAIN map \cup {k} |-> IF x = k THEN v ELSE map[x]]

NumericClaims == {"exp", "nbf", "iat"}

StringClaims == {"iss", "sub", "jti"}

\* Whether a claim value has the type the JWT payload requires of its name.
ClaimTypeOk(k, v) ==
    /\ k \in NumericClaims => IsNum(v)
    /\ k \in StringClaims => IsStr(v)

\* JwtPayload::set_claim(k, Some(v))
set_claim(payload, k, v) ==
    IF ClaimTypeOk(k, v) THEN Ok(Put(payload, k, v))
    ELSE Err("Jwt", "claim type")

\* for (k, v) in state.iter() { payload.set_claim(k, to_value(v)?)?; }
RECURSIVE set_claims(_, _, _)
set_claims(payload, state, keys) ==
    IF keys = {} THEN Ok(payload)
    ELSE LET k == CHOOSE x \in keys : TRUE
             r == set_claim(payload, k, Str(state[k]))
         IN  IF r.ok THEN set_claims(r.val, state, keys \ {k}) ELSE r

\* The HMAC of a payload under a key; an altered signature is another value.
Hmac(key, payload) == [key |-> key, msg |-> payload]

AlteredSig(sig) == [key |-> sig.key, msg |-> sig.msg, altered |-> TRUE]

Jwt(payload, sig) == [kind |-> "jwt", payload |-> payload, sig |-> sig]

Garbage == [kind |-> "garbage"]

(***************************************************************************)
(* config.rs: CoreConfig::encode_urlstate at time t.                       *)
(***************************************************************************)
encode_urlstate(cfg, state, t) ==
    LET timed == Put(Put(<<>>, "iat", Num(AsSecs(t))),
                     "exp", Num(AsSecs(t + Secs(UrlStateValiditySecs))))
        r == set_claims(timed, state, DOMAIN state)
    IN  IF r.ok THEN Ok(Jwt(r.val, Hmac(cfg.internal_secret, r.val)))
        ELSE r

(***************************************************************************)
(* config.rs: CoreConfig::decode_urlstate at time t.                       *)
(***************************************************************************)
\* A variant that parses the token without verifying its signature.
decode_with_verifier_unverified(cfg, tok) ==
    IF tok.kind # "jwt" THEN Err("Jwt", "format")
    ELSE IF \E k \in DOMAIN tok.payload : ~ClaimTypeOk(k, tok.payload[k])
        THEN Err("Jwt", "claim type")
    ELSE Ok(tok.payload)

\* jwt::decode_with_verifier(urlstate, &self.internal_verifier)
decode_with_verifier(cfg, tok) ==
    IF tok.kind # "jwt" THEN Err("Jwt", "format")
    ELSE IF tok.sig # Hmac(cfg.internal_secret, tok.payload)
        THEN Err("Jwt", "signature")
    ELSE IF \E k \in DOMAIN tok.payload : ~ClaimTypeOk(k, tok.payload[k])
        THEN Err("Jwt", "claim type")
    ELSE Ok(tok.payload)

\* A variant that lets a token through at the very instant of its expiry.
validate_late(payload, t) ==
    /\ "nbf" \in DOMAIN payload => ~(Secs(payload["nbf"].num) > t)
    /\ "exp" \in DOMAIN payload => ~(Secs(payload["exp"].num) < t)
    /\ "iat" \in DOMAIN payload => ~(Secs(payload["iat"].num) > t)

\* A variant that does not look at the issued-at claim.
validate_no_iat(payload, t) ==
    /\ "nbf" \in DOMAIN payload => ~(Secs(payload["nbf"].num) > t)
    /\ "exp" \in DOMAIN payload => ~(Secs(payload["exp"].num) <= t)

\* JwtPayloadValidator with base_time = now: validate(&payload) passes
validate(payload, t) ==
    /\ "nbf" \in DOMAIN payload => ~(Secs(payload["nbf"].num) > t)
    /\ "exp" \in DOMAIN payload => ~(Secs(payload["exp"].num) <= t)
    /\ "iat" \in DOMAIN payload => ~(Secs(payload["iat"].num) > t)

\* A variant that skips the expiry claim only.
SkippedClaimsExpOnly == {"exp"}

\* if k == "exp" || k == "iat" { continue; }
SkippedClaims == {"exp", "iat"}

\* The loop over payload.claims_set() that fills the result map.
claims_to_state(payload) ==
    LET keys == DOMAIN payload \ SkippedClaims IN
    IF \E k \in keys : ~IsStr(payload[k]) THEN Err("Json", "not a string")
    ELSE Ok([k \in keys |-> payload[k].str])

decode_urlstate(cfg, tok, t) ==
    LET d == decode_with_verifier(cfg, tok) IN
    IF ~d.ok THEN d
    ELSE IF ~validate(d.val, t) THEN Err("Jwt", "validation")
    ELSE claims_to_state(d.val)

(***************************************************************************)
(* SpecCodec: tokens are encoded, or arrive from outside, and are decoded  *)
(* while the clock advances.                                               *)
(***************************************************************************)
StateKeys == {"attr_url", "continuation", "exp", "iat", "nbf"}

StateValues == {"https://comm/attr", "tel:0612345678"}

StateMaps == MapsOver(StateKeys, StateValues)

SigningKeys == {"sample_secret", "other_secret"}

\* The payloads of the tokens that arrive from outside: each claim is absent
\* or has one of a few values, of the expected type or of another.
Absent == [absent |-> TRUE]

PayloadOf(iat, exp, attr_url, continuation) ==
    LET given == [iat |-> iat, exp |-> exp, attr_url |-> attr_url,
                  continuation |-> continuation]
    IN  [k \in {x \in DOMAIN given : given[x] # Absent} |-> given[k]]

ForeignPayloads ==
    { PayloadOf(iat, exp, attr_url, continuation) :
        iat \in {Absent, Num(0), Num(1), Num(UrlStateValiditySecs)},
        exp \in {Absent, Num(1), Num(UrlStateValiditySecs),
                 Num(UrlStateValiditySecs + 1), Str("never")},
        attr_url \in {Absent, Str("https://comm/attr"), Num(7)},
        continuation \in {Absent, Str("https://comm/x")} }

ForeignTokens ==
    { Jwt(p, Hmac(k, p)) : p \in ForeignPayloads, k \in SigningKeys }
    \cup { Jwt(p, AlteredSig(Hmac("sample_secret", p))) : p \in ForeignPayloads }
    \cup { Garbage }

\* The configuration of the tests (config.rs, TEST_CONFIG_VALID), with the
\* flags of the method irma and of the method call left open.
TestRawConfig(disable_attr_url, shim_tel_url, disable_attributes_at_start) ==
    RawCoreConfig(
        <<AuthenticationMethod("irma", "http://irma",
                               disable_attr_url, shim_tel_url),
          AuthenticationMethod("digid", "http://digid", FALSE, FALSE)>>,
        <<CommunicationMethod("call", "http://call",
                              disable_attributes_at_start),
          CommunicationMethod("chat", "http://chat", FALSE)>>,
        <<Purpose("report_move", <<"email">>, <<"*">>, <<"call", "chat">>),
          Purpose("request_passport", <<"email">>, <<"irma">>, <<"call">>)>>)

InitCodec ==
    /\ raw = TestRawConfig(FALSE, FALSE, FALSE)
    /\ booted = "ok"
    /\ keyorder = <<<<"digid", "irma">>, <<"call", "chat">>>>
    /\ config = CoreConfigFrom(raw, keyorder[1], keyorder[2])
    /\ lookup = NoLookup
    /\ now \in StartTimes
    /\ ticks = 0
    /\ token = NoToken
    /\ enc = NoCall
    /\ dec = NoCall
    /\ pc = "idle"
    /\ req = NoRequest
    /\ calls = <<>>
    /\ comm_data = None
    /\ response = None
    /\ inbound = NoRequest
    /\ reply = NoReply

\* Time passes; the result of an earlier decode has gone back to its caller.
Tick ==
    /\ ticks < MaxTicks
    /\ \E d \in ClockSteps : now' = now + d
    /\ ticks' = ticks + 1
    /\ dec' = NoCall
    /\ UNCHANGED <<token, enc>>
    /\ UNCHANGED bootVars
    /\ UNCHANGED startVars

\* Each behaviour follows one token: one that encode_urlstate produces ...
Encode ==
    /\ token = NoToken
    /\ enc = NoCall
    /\ \E state \in StateMaps :
          LET r == encode_urlstate(config, state, now) IN
            /\ enc' = [kind |-> "encode", state |-> state, at |-> now,
                       result |-> r]
            /\ token' = IF r.ok THEN r.val ELSE token
    /\ UNCHANGED <<now, ticks, dec>>
    /\ UNCHANGED bootVars
    /\ UNCHANGED startVars

\* ... or one that arrives from outside.
Receive ==
    /\ token = NoToken
    /\ enc = NoCall
    /\ token' \in ForeignTokens
    /\ UNCHANGED <<now, ticks, enc, dec>>
    /\ UNCHANGED bootVars
    /\ UNCHANGED startVars

Decode ==
    /\ token # NoToken
    /\ dec' = [kind |-> "decode", token |-> token, at |-> now,
               result |-> decode_urlstate(config, token, now)]
    /\ UNCHANGED <<now, ticks, token, enc>>
    /\ UNCHANGED bootVars
    /\ UNCHANGED startVars

NextCodec == Tick \/ Encode \/ Receive \/ Decode

SpecCodec == InitCodec /\ [][NextCodec]_vars

(***************************************************************************)
(* Outbound HTTP: what is sent, and what may come back.                    *)
(***************************************************************************)
Endpoint(base, path) == [base |-> base, path |-> path]

Send(to, body) == [ev |-> "send", to |-> to, body |-> body]

Recv(to, outcome) == [ev |-> "recv", to |-> to, outcome |-> outcome]

\* .send().await fails with a reqwest::Error: the provider could not be
\* reached, or it did not answer within the timeout of the client.
TransportFailure == [transport |-> "failed"]

HttpResponse(status, body) == [status |-> status, body |-> body]

Unparseable == [unparseable |-> TRUE]

HttpStatuses == {200, 500}

\* Response::error_for_status lets the 2xx statuses through.
is_success(status) == status \in 200..299

TelUrls == {"tel:0612345678"}

QueryUrls == {"https://comm/session?lang=nl"}

ClientUrls == {"https://comm/session"} \cup TelUrls \cup QueryUrls

\* continuation.starts_with("tel:")
starts_with_tel(url) == url \in TelUrls

\* comm_data.client_url.contains('?')
contains_query(url) == url \in QueryUrls

\* A url kept as it is, and format!("{}{}", prefix, token).
Plain(url) == [plain |-> url]

Concat(prefix, tok) == [prefix |-> prefix, token |-> tok]

StartCommResponses ==
    { [client_url |-> c, attr_url |-> a] :
        c \in ClientUrls, a \in {None, Some("https://comm/attr")} }

CommOutcomes ==
    {TransportFailure}
    \cup { HttpResponse(st, b) :
             st \in HttpStatuses, b \in StartCommResponses \cup {Unparseable} }

StartAuthResponses == { [client_url |-> "https://auth/client"] }

AuthOutcomes ==
    {TransportFailure}
    \cup { HttpResponse(st, b) :
             st \in HttpStatuses, b \in StartAuthResponses \cup {Unparseable} }

(***************************************************************************)
(* methods/comm.rs: CommunicationMethod::start.                            *)
(***************************************************************************)
StartCommRequest(purpose_tag, auth_result) ==
    [purpose |-> purpose_tag, auth_result |-> auth_result]

\* A variant that sends an (empty) auth result along.
comm_start_request_with_result(purpose_tag) ==
    StartCommRequest(purpose_tag, Some(""))

\* The body that start posts to <start>/start_communication.
comm_start_request(purpose_tag) == StartCommRequest(purpose_tag, None)

\* .send().await?.json::<StartCommResponse>().await?
comm_start_result(outcome) ==
    IF outcome = TransportFailure THEN Err("Reqwest", "transport")
    ELSE IF outcome.body = Unparseable THEN Err("Reqwest", "decode")
    ELSE Ok(outcome.body)

(***************************************************************************)
(* methods/comm.rs: CommunicationMethod::start_with_auth_result and its    *)
(* fallback for providers that take no attributes at start.                *)
(***************************************************************************)
\* A variant that hands the auth result over at start, fallback or not.
start_with_auth_result_request_eager(method, purpose_tag, auth_result) ==
    StartCommRequest(purpose_tag, Some(auth_result))

\* A variant that never hands the auth result over at start.
start_with_auth_result_request_plain(method, purpose_tag, auth_result) ==
    comm_start_request(purpose_tag)

\* The body of the first call of start_with_auth_result: the fallback calls
\* plain start, the direct path sends the auth result along.
start_with_auth_result_request(method, purpose_tag, auth_result) ==
    IF method.disable_attributes_at_start
        THEN comm_start_request(purpose_tag)
        ELSE StartCommRequest(purpose_tag, Some(auth_result))

\* .send().await?.error_for_status()?.json::<StartCommResponse>().await?
start_with_auth_result_result(outcome) ==
    IF outcome = TransportFailure THEN Err("Reqwest", "transport")
    ELSE IF ~is_success(outcome.status) THEN Err("Reqwest", "status")
    ELSE IF outcome.body = Unparseable THEN Err("Reqwest", "decode")
    ELSE Ok(outcome.body)

\* The url an attribute POST goes to, and what is posted.
UrlEndpoint(url) == Endpoint(url, "")

AttrPost(result) == [content_type |-> "application/jwt", body |-> result]

Empty == [empty |-> TRUE]

\* client.post(attr_url)...send().await?: the status is not looked at.
AttrPostOutcomes ==
    {TransportFailure} \cup { HttpResponse(st, Empty) : st \in HttpStatuses }

\* A variant that takes a status outside 2xx for a failure.
attr_post_result_for_status(outcome) ==
    IF outcome = TransportFailure THEN Err("Reqwest", "transport")
    ELSE IF ~is_success(outcome.status) THEN Err("Reqwest", "status")
    ELSE Ok(Empty)

attr_post_result(outcome) ==
    IF outcome = TransportFailure THEN Err("Reqwest", "transport")
    ELSE Ok(Empty)

\* A variant that always joins with '?'.
Appended_with_question_mark(client_url, auth_result) ==
    [url |-> client_url,
     sep |-> "?",
     query |-> "status=succes&attributes=",
     attributes |-> auth_result]

\* format!("{}&status=succes&attributes={}", client_url, auth_result), or
\* the same with '?'.
Appended(client_url, auth_result) ==
    [url |-> client_url,
     sep |-> IF contains_query(client_url) THEN "&" ELSE "?",
     query |-> "status=succes&attributes=",
     attributes |-> auth_result]

StartCommResponse(client_url, attr_url) ==
    [client_url |-> client_url, attr_url |-> attr_url]

\* The fallback when start returned no attr_url.
fallback_without_attr_url(comm_response, auth_result) ==
    StartCommResponse(Appended(comm_response.client_url, auth_result), None)

\* The fallback after the auth result was posted to the attr_url.
fallback_with_attr_url(comm_response) ==
    StartCommResponse(Plain(comm_response.client_url), None)

(***************************************************************************)
(* methods/auth.rs: AuthenticationMethod::start.                           *)
(***************************************************************************)
\* A variant that leaves the attribute url out of the request.
StartAuthRequest_no_attr_url(attributes, continuation, attr_url) ==
    [attributes |-> attributes, continuation |-> continuation,
     attr_url |-> None]

StartAuthRequest(attributes, continuation, attr_url) ==
    [attributes |-> attributes, continuation |-> continuation,
     attr_url |-> attr_url]

\* expires_at is set to the expiry time of a DTMF code
TelTokenValiditySecs == 60 * 60

sign_continuation(continuation, cfg, t) ==
    LET payload == Put(Put(Put(<<>>, "iat", Num(AsSecs(t))),
                           "exp", Num(AsSecs(t + Secs(TelTokenValiditySecs)))),
                       "continuation", Str(continuation))
    IN  Jwt(payload, Hmac("ui_signing_privkey", payload))

\* A variant that never rewrites.
parse_continuation_as_given(method, continuation, cfg, t) ==
    Plain(continuation)

parse_continuation(method, continuation, cfg, t) ==
    IF starts_with_tel(continuation) /\ method.shim_tel_url
        THEN Concat(cfg.ui_tel_url, sign_continuation(continuation, cfg, t))
        ELSE Plain(continuation)

\* Start session using fallback shim for attribute url handling: the request
\* that start_fallback posts, or the error of encode_urlstate.
start_fallback(method, attributes, continuation, attr_url, cfg, t) ==
    LET state == encode_urlstate(cfg,
                     [attr_url |-> attr_url, continuation |-> continuation], t)
    IN  IF ~state.ok THEN state
        ELSE Ok(StartAuthRequest(attributes,
                    Concat(<<cfg.server_url, "/auth_attr_shim/">>, state.val),
                    None))

\* A variant that never takes the fallback.
auth_start_request_direct(method, attributes, continuation, attr_url, cfg, t) ==
    Ok(StartAuthRequest(attributes,
                        parse_continuation(method, continuation, cfg, t),
                        attr_url))

\* A variant that takes the fallback with the continuation as it was given,
\* and rewrites a tel: continuation on the direct path only.
auth_start_request_raw(method, attributes, continuation, attr_url, cfg, t) ==
    IF attr_url.some /\ method.disable_attr_url
        THEN start_fallback(method, attributes, Plain(continuation),
                            attr_url.val, cfg, t)
        ELSE Ok(StartAuthRequest(attributes,
                    parse_continuation(method, continuation, cfg, t),
                    attr_url))

\* The request that start posts to <start>/start_authentication, or the error
\* that ends start before anything is sent.
auth_start_request(method, attributes, continuation, attr_url, cfg, t) ==
    LET parsed == parse_continuation(method, continuation, cfg, t) IN
    IF attr_url.some /\ method.disable_attr_url
        THEN start_fallback(method, attributes, parsed, attr_url.val, cfg, t)
        ELSE Ok(StartAuthRequest(attributes, parsed, attr_url))

\* The state map that start hands to encode_urlstate, if it does.
auth_start_state(method, continuation, attr_url, cfg, t) ==
    IF attr_url.some /\ method.disable_attr_url
        THEN Some([attr_url |-> attr_url.val,
                   continuation |->
                       parse_continuation(method, continuation, cfg, t)])
        ELSE None

\* A variant that does not look at the status.
auth_start_result_any_status(outcome) ==
    IF outcome = TransportFailure THEN Err("Reqwest", "transport")
    ELSE IF outcome.body = Unparseable THEN Err("Reqwest", "decode")
    ELSE Ok(outcome.body.client_url)

\* .send().await?.error_for_status()?.json::<StartAuthResponse>().await?.client_url
auth_start_result(outcome) ==
    IF outcome = TransportFailure THEN Err("Reqwest", "transport")
    ELSE IF ~is_success(outcome.status) THEN Err("Reqwest", "status")
    ELSE IF outcome.body = Unparseable THEN Err("Reqwest", "decode")
    ELSE Ok(outcome.body.client_url)

(***************************************************************************)
(* error.rs: Responder for Error.                                          *)
(***************************************************************************)
BadRequest == Err("BadRequest", "")

\* A variant in which only BadRequest answers with BadRequest.
respond_to_error_lookups_as_server_error(e) ==
    IF e.err = "BadRequest" THEN [status |-> 400] ELSE [status |-> 500]

\* NoSuchMethod, NoSuchPurpose and BadRequest answer with BadRequest; every
\* other error goes through rocket::response::Debug, the 500 catcher.
respond_to_error(e) ==
    IF e.err \in {"NoSuchMethod", "NoSuchPurpose", "BadRequest"}
        THEN [status |-> 400]
        ELSE [status |-> 500]

(***************************************************************************)
(* start.rs: the request shapes and their deserialisation.                 *)
(***************************************************************************)
StartRequestFull(purpose_tag, auth_tag, comm_tag) ==
    [kind |-> "full", purpose |-> purpose_tag,
     auth_method |-> auth_tag, comm_method |-> comm_tag]

StartRequestCommOnly(purpose_tag, auth_result, comm_tag) ==
    [kind |-> "comm_only", purpose |-> purpose_tag,
     auth_result |-> auth_result, comm_method |-> comm_tag]

\* A variant that drops the attribute url.
StartRequestAuthOnly_without_attr_url(purpose_tag, auth_tag, comm_url, attr_url) ==
    [kind |-> "auth_only", purpose |-> purpose_tag,
     auth_method |-> auth_tag, comm_url |-> comm_url, attr_url |-> None]

StartRequestAuthOnly(purpose_tag, auth_tag, comm_url, attr_url) ==
    [kind |-> "auth_only", purpose |-> purpose_tag,
     auth_method |-> auth_tag, comm_url |-> comm_url, attr_url |-> attr_url]

PurposeInputs == PurposeTags \cup {"nope"}

FullRequests ==
    { StartRequestFull(p, a, c) :
        p \in PurposeInputs, a \in TagInputs, c \in TagInputs }

\* A JSON object is a map from field names to values; a body is an object
\* or is not JSON at all.
JsonObject(fields) == [kind |-> "object", fields |-> fields]

Obj(fields) == [obj |-> fields]

IsObj(v) == DOMAIN v = {"obj"}

\* The map of the fields that are given.
ObjectOf(given) ==
    [k \in {x \in DOMAIN given : given[x] # Absent} |-> given[k]]

\* A required String field is there and is a string.
HasString(fields, k) == k \in DOMAIN fields /\ IsStr(fields[k])

\* An Option<String> field is left out or is a string.
HasOptionalString(fields, k) == k \in DOMAIN fields => IsStr(fields[k])

OptionalString(fields, k) ==
    IF k \in DOMAIN fields THEN Some(fields[k].str) ELSE None

FullFields == {"purpose", "auth_method", "comm_method"}

CommOnlyFields == {"purpose", "auth_result", "comm_method"}

AuthOnlyFields == {"purpose", "auth_method", "comm_url"}

\* serde_json::from_str::<StartRequestFull>(&choices): fields that the
\* struct does not have are ignored.
from_str_StartRequestFull(body) ==
    IF body.kind # "object" THEN Err("Json", "syntax")
    ELSE IF \E k \in FullFields : ~HasString(body.fields, k)
        THEN Err("Json", "shape")
    ELSE Ok(StartRequestFull(body.fields["purpose"].str,
                             body.fields["auth_method"].str,
                             body.fields["comm_method"].str))

\* A variant that makes do without the auth result.
from_str_StartRequestCommOnly_lenient(body) ==
    IF body.kind # "object" THEN Err("Json", "syntax")
    ELSE IF \E k \in {"purpose", "comm_method"} : ~HasString(body.fields, k)
        THEN Err("Json", "shape")
    ELSE Ok(StartRequestCommOnly(body.fields["purpose"].str, "",
                                 body.fields["comm_method"].str))

\* serde_json::from_str::<StartRequestCommOnly>(&choices)
from_str_StartRequestCommOnly(body) ==
    IF body.kind # "object" THEN Err("Json", "syntax")
    ELSE IF \E k \in CommOnlyFields : ~HasString(body.fields, k)
        THEN Err("Json", "shape")
    ELSE Ok(StartRequestCommOnly(body.fields["purpose"].str,
                                 body.fields["auth_result"].str,
                                 body.fields["comm_method"].str))

\* serde_json::from_value::<StartRequestAuthOnly>(request.clone())
from_value_StartRequestAuthOnly(v) ==
    IF ~IsObj(v) THEN Err("Json", "shape")
    ELSE IF \/ \E k \in AuthOnlyFields : ~HasString(v.obj, k)
            \/ ~HasOptionalString(v.obj, "attr_url")
        THEN Err("Json", "shape")
    ELSE Ok(StartRequestAuthOnly(v.obj["purpose"].str,
                                 v.obj["auth_method"].str,
                                 v.obj["comm_url"].str,
                                 OptionalString(v.obj, "attr_url")))

(***************************************************************************)
(* config.rs: CoreConfig::decode_authonly_request at time t.               *)
(***************************************************************************)
\* The signature of a payload under a requestor's key pair.
Signature(key, payload) == [key |-> key, msg |-> payload]

\* A JWT whose header names a key id (or none).
RequestJwt(kid, payload, sig) ==
    [kind |-> "jwt", kid |-> kid, payload |-> payload, sig |-> sig]

\* A variant that verifies against the one registered key whatever the header
\* names.
select_verifier_any(cfg, kid) ==
    Some(cfg.authonly_request_keys["test"])

\* header.key_id().map(|kid| self.authonly_request_keys.get(kid)).flatten()
select_verifier(cfg, kid) ==
    IF kid.some /\ kid.val \in DOMAIN cfg.authonly_request_keys
        THEN Some(cfg.authonly_request_keys[kid.val])
        ELSE None

decode_authonly_request(cfg, jwt, t) ==
    IF jwt.kind # "jwt" THEN Err("Jwt", "format")
    ELSE IF \E k \in DOMAIN jwt.payload : ~ClaimTypeOk(k, jwt.payload[k])
        THEN Err("Jwt", "claim type")
    ELSE LET verifier == select_verifier(cfg, jwt.kid) IN
    IF ~verifier.some THEN Err("Jwt", "no verifier")
    ELSE IF jwt.sig # Signature(verifier.val, jwt.payload)
        THEN Err("Jwt", "signature")
    ELSE IF ~validate(jwt.payload, t) THEN Err("Jwt", "validation")
    ELSE IF "request" \notin DOMAIN jwt.payload THEN BadRequest
    ELSE from_value_StartRequestAuthOnly(jwt.payload["request"])

(***************************************************************************)
(* start.rs: the three orchestrations.                                     *)
(***************************************************************************)
ClientUrlResponse(client_url) == [client_url |-> client_url]

\* rocket::response::Redirect::to
Redirect(to) == [redirect |-> to]

(***************************************************************************)
(* The responders: what the caller is sent for a handler's result.         *)
(***************************************************************************)
\* The Accept header of a request, if it has one.
AcceptHeaders == {None, Some("application/json"), Some("text/html")}

\* Json(..).respond_to: 200 with the value as a JSON body.
respond_to_json(value) ==
    [status |-> 200, content_type |-> "application/json", body |-> value]

\* Redirect::to(..).respond_to: 303 See Other with a Location header.
respond_to_redirect(r) == [status |-> 303, location |-> r.redirect]

\* A variant that redirects whatever the caller accepts.
respond_to_client_url_by_redirect(r, accept) ==
    respond_to_redirect(Redirect(r.client_url))

\* Responder for ClientUrlResponse
respond_to_client_url(r, accept) ==
    IF accept = Some("application/json")
        THEN respond_to_json(ClientUrlResponse(r.client_url))
        ELSE respond_to_redirect(Redirect(r.client_url))

\* What Rocket sends for the Result that a handler returned.
respond_to(result, request) ==
    IF ~result.ok THEN respond_to_error(result)
    ELSE IF "redirect" \in DOMAIN result.val
        THEN respond_to_redirect(result.val)
    ELSE respond_to_client_url(result.val, request.accept)

\* A handler that has returned is answered by the responder of its result;
\* a call of start that came from no request is answered to no one.
Replies ==
    reply' = IF pc' \in {"done", "shim_done"} /\ inbound' # NoRequest
               THEN respond_to(response', inbound')
               ELSE reply

\* A variant that fetches the comm method before the auth method.
resolve_full_comm_first(cfg, choices) ==
    LET p == purpose(cfg, choices.purpose) IN
    IF ~p.ok THEN p
    ELSE LET c == comm_method(cfg, p.val, choices.comm_method) IN
    IF ~c.ok THEN c
    ELSE LET a == auth_method(cfg, p.val, choices.auth_method) IN
    IF ~a.ok THEN a
    ELSE Ok([purpose |-> p.val, auth_method |-> a.val, comm_method |-> c.val])

\* Fetch purpose and methods
resolve_full(cfg, choices) ==
    LET p == purpose(cfg, choices.purpose) IN
    IF ~p.ok THEN p
    ELSE LET a == auth_method(cfg, p.val, choices.auth_method) IN
    IF ~a.ok THEN a
    ELSE LET c == comm_method(cfg, p.val, choices.comm_method) IN
    IF ~c.ok THEN c
    ELSE Ok([purpose |-> p.val, auth_method |-> a.val, comm_method |-> c.val])

\* Fetch purpose and methods (session_start_auth_only)
resolve_auth_only(cfg, choices) ==
    LET p == purpose(cfg, choices.purpose) IN
    IF ~p.ok THEN p
    ELSE LET a == auth_method(cfg, p.val, choices.auth_method) IN
    IF ~a.ok THEN a
    ELSE Ok([purpose |-> p.val, auth_method |-> a.val])

\* Fetch purpose and methods (start_session_comm_only)
resolve_comm_only(cfg, choices) ==
    LET p == purpose(cfg, choices.purpose) IN
    IF ~p.ok THEN p
    ELSE LET c == comm_method(cfg, p.val, choices.comm_method) IN
    IF ~c.ok THEN c
    ELSE Ok([purpose |-> p.val, comm_method |-> c.val])

CommEndpoint(method) == Endpoint(method.start, "/start_communication")

AuthEndpoint(method) == Endpoint(method.start, "/start_authentication")

(***************************************************************************)
(* The bodies that arrive at /start.                                       *)
(***************************************************************************)
AuthResults == {"result.jwt"}

JsonBodies ==
    { JsonObject(ObjectOf([purpose |-> p, auth_method |-> a, comm_method |-> c,
                           auth_result |-> r, comm_url |-> u, attr_url |-> t])) :
        p \in {Absent, Str("report_move"), Str("request_passport"), Str("nope")},
        a \in {Absent, Str("irma"), Str("digid")},
        c \in {Absent, Str("call"), Str("chat"), Num(1)},
        r \in {Absent} \cup {Str(x) : x \in AuthResults},
        u \in {Absent, Str("tel:0612345678")},
        t \in {Absent, Str("https://comm/attr")} }
    \cup { Garbage }

\* The values of the claim request of a JWT body.
AuthOnlyObjects ==
    { Obj(ObjectOf([purpose |-> p, auth_method |-> a, comm_url |-> u,
                    attr_url |-> t])) :
        p \in {Str("report_move"), Str("nope")},
        a \in {Str("irma"), Str("call")},
        u \in {Absent} \cup {Str(x) : x \in ClientUrls \ QueryUrls},
        t \in {Absent, Str("https://comm/attr"), Num(7)} }

RequestorKeys == {"test_key", "other_key"}

KeyIds == {None, Some("test"), Some("unknown")}

RequestPayloads ==
    { ObjectOf([iat |-> iat, exp |-> exp, request |-> request]) :
        iat \in {Absent, Num(1)},
        exp \in {Absent, Num(0), Num(1)},
        request \in {Absent} \cup AuthOnlyObjects }

RequestJwts ==
    { RequestJwt(kid, p, Signature(k, p)) :
        kid \in KeyIds, p \in RequestPayloads, k \in RequestorKeys }
    \cup { Garbage }

Init ==
    /\ raw \in { TestRawConfig(a, b, c) :
                   a \in BOOLEAN, b \in BOOLEAN, c \in BOOLEAN }
    /\ booted = "ok"
    /\ keyorder = <<<<"digid", "irma">>, <<"call", "chat">>>>
    /\ config = CoreConfigFrom(raw, keyorder[1], keyorder[2])
    /\ lookup = NoLookup
    /\ now \in StartTimes
    /\ ticks = 0
    /\ token = NoToken
    /\ enc = NoCall
    /\ dec = NoCall
    /\ pc = "idle"
    /\ req = NoRequest
    /\ calls = <<>>
    /\ comm_data = None
    /\ response = None
    /\ inbound = NoRequest
    /\ reply = NoReply

\* The handler returns e before it has called anyone.
reject(choices, e) ==
    /\ req' = choices
    /\ response' = e
    /\ pc' = "done"
    /\ UNCHANGED <<calls, comm_data>>

\* A variant that issues the call once more when it is slow to answer.
call_out_twice(choices, endpoint, body, wait) ==
    /\ req' = choices
    /\ calls' = calls \o <<Send(endpoint, body), Send(endpoint, body)>>
    /\ pc' = wait
    /\ UNCHANGED <<response, comm_data>>

\* The handler issues an outbound call and awaits it.
call_out(choices, endpoint, body, wait) ==
    /\ req' = choices
    /\ calls' = Append(calls, Send(endpoint, body))
    /\ pc' = wait
    /\ UNCHANGED <<response, comm_data>>

\* session_start_full: the purpose and the methods are fetched, and the comm
\* provider is called.
session_start_full(choices) ==
    LET r == resolve_full(config, choices) IN
    IF ~r.ok THEN reject(choices, r)
    ELSE call_out(choices, CommEndpoint(r.val.comm_method),
                  comm_start_request(r.val.purpose.tag), "comm_wait")

\* session_start_auth_only: the purpose and the auth method are fetched, and
\* the auth provider is called.
session_start_auth_only(choices) ==
    LET r == resolve_auth_only(config, choices)
        ar == auth_start_request(r.val.auth_method, r.val.purpose.attributes,
                  choices.comm_url, choices.attr_url, config, now)
    IN  IF ~r.ok THEN reject(choices, r)
        ELSE IF ~ar.ok THEN reject(choices, ar)
        ELSE call_out(choices, AuthEndpoint(r.val.auth_method), ar.val,
                      "auth_wait")

\* start_session_comm_only: the purpose and the comm method are fetched, and
\* the comm provider is called by start_with_auth_result.
start_session_comm_only(choices) ==
    LET r == resolve_comm_only(config, choices) IN
    IF ~r.ok THEN reject(choices, r)
    ELSE call_out(choices, CommEndpoint(r.val.comm_method),
                  start_with_auth_result_request(r.val.comm_method,
                      choices.purpose, choices.auth_result),
                  "comm_wait")

\* session_start_get: a form-encoded body is a Full start request.
StartFull ==
    /\ pc = "idle"
    /\ \E choices \in FullRequests, accept \in AcceptHeaders :
          /\ inbound' = [route |-> "form", body |-> choices,
                         accept |-> accept]
          /\ session_start_full(choices)
    /\ Replies
    /\ UNCHANGED bootVars
    /\ UNCHANGED codecVars

\* A variant that tries the Auth-only shape on a JSON body as well.
session_start_dispatch_with_auth_only(body) ==
    LET full == from_str_StartRequestFull(body)
        comm_only == from_str_StartRequestCommOnly(body)
        auth_only == IF body.kind = "object"
                       THEN from_value_StartRequestAuthOnly(Obj(body.fields))
                       ELSE Err("Json", "syntax")
    IN  IF full.ok THEN full
        ELSE IF comm_only.ok THEN comm_only
        ELSE IF auth_only.ok THEN auth_only
        ELSE BadRequest

\* A variant that tries the Comm-only shape first.
session_start_dispatch_comm_only_first(body) ==
    LET full == from_str_StartRequestFull(body)
        comm_only == from_str_StartRequestCommOnly(body)
    IN  IF comm_only.ok THEN comm_only
        ELSE IF full.ok THEN full
        ELSE BadRequest

\* session_start: the body is tried as a Full request, then as a Comm-only
\* request; the result is the request to run, or the error.
session_start_dispatch(body) ==
    LET full == from_str_StartRequestFull(body)
        comm_only == from_str_StartRequestCommOnly(body)
    IN  IF full.ok THEN full
        ELSE IF comm_only.ok THEN comm_only
        ELSE BadRequest

\* The orchestration of a request, by its shape.
run(choices) ==
    IF choices.kind = "full" THEN session_start_full(choices)
    ELSE IF choices.kind = "comm_only" THEN start_session_comm_only(choices)
    ELSE session_start_auth_only(choices)

\* session_start: a JSON body.
SessionStart ==
    /\ pc = "idle"
    /\ \E body \in JsonBodies, accept \in AcceptHeaders :
          LET d == session_start_dispatch(body) IN
            /\ inbound' = [route |-> "json", body |-> body,
                           accept |-> accept]
            /\ IF d.ok THEN run(d.val) ELSE reject(NoRequest, d)
    /\ Replies
    /\ UNCHANGED bootVars
    /\ UNCHANGED codecVars

\* session_start_jwt: a signed JWT body.
SessionStartJwt ==
    /\ pc = "idle"
    /\ \E jwt \in RequestJwts, accept \in AcceptHeaders :
          LET d == decode_authonly_request(config, jwt, now) IN
            /\ inbound' = [route |-> "jwt", body |-> jwt, accept |-> accept]
            /\ IF d.ok THEN session_start_auth_only(d.val)
                       ELSE reject(NoRequest, BadRequest)
    /\ Replies
    /\ UNCHANGED bootVars
    /\ UNCHANGED codecVars

\* Full start: the call to the comm provider ends; on success the auth
\* provider is called.
CommResponds ==
    /\ pc = "comm_wait"
    /\ req.kind = "full"
    /\ \E outcome \in CommOutcomes :
          LET r == resolve_full(config, req).val
              recv == Recv(CommEndpoint(r.comm_method), outcome)
              cr == comm_start_result(outcome)
              ar == auth_start_request(r.auth_method, r.purpose.attributes,
                        cr.val.client_url, cr.val.attr_url, config, now)
          IN  IF ~cr.ok
                THEN /\ calls' = Append(calls, recv)
                     /\ response' = cr
                     /\ pc' = "done"
                     /\ comm_data' = comm_data
              ELSE IF ~ar.ok
                THEN /\ calls' = Append(calls, recv)
                     /\ response' = ar
                     /\ pc' = "done"
                     /\ comm_data' = Some(cr.val)
                ELSE /\ calls' = calls \o
                          <<recv, Send(AuthEndpoint(r.auth_method), ar.val)>>
                     /\ response' = response
                     /\ pc' = "auth_wait"
                     /\ comm_data' = Some(cr.val)
    /\ UNCHANGED <<req, inbound>>
    /\ Replies
    /\ UNCHANGED bootVars
    /\ UNCHANGED codecVars

\* Comm-only start: the first call of start_with_auth_result ends.  On the
\* direct path that is the result; on the fallback path the auth result is
\* posted to the attr_url, or appended to the client_url.
CommOnlyResponds ==
    /\ pc = "comm_wait"
    /\ req.kind = "comm_only"
    /\ \E outcome \in CommOutcomes :
          LET m == resolve_comm_only(config, req).val.comm_method
              recv == Recv(CommEndpoint(m), outcome)
              direct == start_with_auth_result_result(outcome)
              cr == comm_start_result(outcome)
              appended == fallback_without_attr_url(cr.val, req.auth_result)
          IN  IF ~m.disable_attributes_at_start
                THEN /\ calls' = Append(calls, recv)
                     /\ pc' = "done"
                     /\ IF direct.ok
                          THEN /\ comm_data' = Some(StartCommResponse(
                                     Plain(direct.val.client_url),
                                     direct.val.attr_url))
                               /\ response' = Ok(ClientUrlResponse(
                                     Plain(direct.val.client_url)))
                          ELSE /\ comm_data' = comm_data
                               /\ response' = direct
              ELSE IF ~cr.ok
                THEN /\ calls' = Append(calls, recv)
                     /\ pc' = "done"
                     /\ comm_data' = comm_data
                     /\ response' = cr
              ELSE IF cr.val.attr_url.some
                THEN /\ calls' = calls \o
                          <<recv, Send(UrlEndpoint(cr.val.attr_url.val),
                                       AttrPost(req.auth_result))>>
                     /\ pc' = "attr_wait"
                     /\ UNCHANGED <<comm_data, response>>
                ELSE /\ calls' = Append(calls, recv)
                     /\ pc' = "done"
                     /\ comm_data' = Some(appended)
                     /\ response' = Ok(ClientUrlResponse(appended.client_url))
    /\ UNCHANGED <<req, inbound>>
    /\ Replies
    /\ UNCHANGED bootVars
    /\ UNCHANGED codecVars

\* The start response that the fallback holds while it posts the auth result.
fallback_comm_data == calls[Len(calls) - 1].outcome.body

\* Comm-only start, fallback path: the POST of the auth result ends.
AttrPostResponds ==
    /\ pc = "attr_wait"
    /\ \E outcome \in AttrPostOutcomes :
          LET pr == attr_post_result(outcome)
              kept == fallback_with_attr_url(fallback_comm_data)
          IN  /\ calls' = Append(calls, Recv(calls[Len(calls)].to, outcome))
              /\ pc' = "done"
              /\ IF pr.ok
                   THEN /\ comm_data' = Some(kept)
                        /\ response' = Ok(ClientUrlResponse(kept.client_url))
                   ELSE /\ comm_data' = comm_data
                        /\ response' = pr
    /\ UNCHANGED <<req, inbound>>
    /\ Replies
    /\ UNCHANGED bootVars
    /\ UNCHANGED codecVars

\* A variant that issues the call once more when it ended without an answer.
AuthResponds_retrying ==
    /\ pc = "auth_wait"
    /\ \E outcome \in AuthOutcomes :
          LET ar == auth_start_result(outcome)
              recv == Recv(calls[Len(calls)].to, outcome)
          IN  IF outcome = TransportFailure /\ Len(calls) < 4
                THEN /\ calls' = calls \o <<recv, calls[Len(calls)]>>
                     /\ response' = response
                     /\ pc' = "auth_wait"
                ELSE /\ calls' = Append(calls, recv)
                     /\ response' = IF ar.ok THEN Ok(ClientUrlResponse(ar.val))
                                             ELSE ar
                     /\ pc' = "done"
    /\ UNCHANGED <<req, comm_data, inbound>>
    /\ Replies
    /\ UNCHANGED bootVars
    /\ UNCHANGED codecVars

\* The call to the auth provider ends, and with it the request.
AuthResponds ==
    /\ pc = "auth_wait"
    /\ \E outcome \in AuthOutcomes :
          LET ar == auth_start_result(outcome)
          IN  /\ calls' = Append(calls, Recv(calls[Len(calls)].to, outcome))
              /\ response' = IF ar.ok THEN Ok(ClientUrlResponse(ar.val)) ELSE ar
              /\ pc' = "done"
    /\ UNCHANGED <<req, comm_data, inbound>>
    /\ Replies
    /\ UNCHANGED bootVars
    /\ UNCHANGED codecVars

Next ==
    \/ StartFull
    \/ SessionStart
    \/ SessionStartJwt
    \/ CommResponds
    \/ CommOnlyResponds
    \/ AttrPostResponds
    \/ AuthResponds

Spec == Init /\ [][Next]_vars

(***************************************************************************)
(* methods/auth.rs: auth_attr_shim, the attribute-shim callback.           *)
(***************************************************************************)
\* A variant that redirects to the url it posts to.
unpack_state_to_attr_url(cfg, state, t) ==
    LET d == decode_urlstate(cfg, state, t) IN
    IF ~d.ok THEN d
    ELSE IF "attr_url" \notin DOMAIN d.val THEN BadRequest
    ELSE IF "continuation" \notin DOMAIN d.val THEN BadRequest
    ELSE Ok([attr_url |-> d.val["attr_url"],
             continuation |-> Plain(d.val["attr_url"])])

\* A variant that takes a state only as long as no result posted for it has
\* been answered.
unpack_state_single_use(cfg, state, t) ==
    LET d == decode_urlstate(cfg, state, t) IN
    IF \E i \in DOMAIN calls : calls[i].ev = "recv" /\ calls[i].to.path = ""
        THEN BadRequest
    ELSE IF ~d.ok THEN d
    ELSE IF "attr_url" \notin DOMAIN d.val THEN BadRequest
    ELSE IF "continuation" \notin DOMAIN d.val THEN BadRequest
    ELSE Ok([attr_url |-> d.val["attr_url"],
             continuation |-> d.val["continuation"]])

\* Unpack session state: the url to post to and the url to redirect to, or
\* the error that ends the handler.
\* A variant that makes do without a continuation and sends the caller to
\* the server's own url.
unpack_state_default_continuation(cfg, state, t) ==
    LET d == decode_urlstate(cfg, state, t) IN
    IF ~d.ok THEN d
    ELSE IF "attr_url" \notin DOMAIN d.val THEN BadRequest
    ELSE IF "continuation" \notin DOMAIN d.val
        THEN Ok([attr_url |-> d.val["attr_url"],
                 continuation |-> Plain(cfg.server_url)])
    ELSE Ok([attr_url |-> d.val["attr_url"],
             continuation |-> d.val["continuation"]])

unpack_state(cfg, state, t) ==
    LET d == decode_urlstate(cfg, state, t) IN
    IF ~d.ok THEN d
    ELSE IF "attr_url" \notin DOMAIN d.val THEN BadRequest
    ELSE IF "continuation" \notin DOMAIN d.val THEN BadRequest
    ELSE Ok([attr_url |-> d.val["attr_url"],
             continuation |-> d.val["continuation"]])

ShimResults == {"result.jwt", "other.jwt"}

\* The state tokens that arrive at the callback from outside.
ShimForeignTokens ==
    { Jwt(p, Hmac(k, p)) :
        p \in { PayloadOf(Num(0), exp, attr_url, continuation) :
                  exp \in {Num(1), Num(UrlStateValiditySecs + 1)},
                  attr_url \in {Absent, Str("https://comm/attr"), Num(7)},
                  continuation \in {Absent, Str(Plain("https://comm/x"))} },
        k \in SigningKeys }
    \cup { Garbage }

\* The continuations and the attribute urls that start is called with.
Continuations == ClientUrls \ QueryUrls

AttrUrls == {None, Some("https://comm/attr")}

InitShim ==
    /\ raw \in { TestRawConfig(a, b, FALSE) : a \in BOOLEAN, b \in BOOLEAN }
    /\ booted = "ok"
    /\ keyorder = <<<<"digid", "irma">>, <<"call", "chat">>>>
    /\ config = CoreConfigFrom(raw, keyorder[1], keyorder[2])
    /\ lookup = NoLookup
    /\ now \in StartTimes
    /\ ticks = 0
    /\ token = NoToken
    /\ enc = NoCall
    /\ dec = NoCall
    /\ pc = "idle"
    /\ req = NoRequest
    /\ calls = <<>>
    /\ comm_data = None
    /\ response = None
    /\ inbound = NoRequest
    /\ reply = NoReply

\* AuthenticationMethod::start is called, as the orchestrations call it.
AuthStart ==
    /\ pc = "idle"
    /\ \E tag \in DOMAIN config.auth_methods,
          continuation \in Continuations, attr_url \in AttrUrls :
          LET method == config.auth_methods[tag]
              attributes == <<"email">>
              ar == auth_start_request(method, attributes, continuation,
                                       attr_url, config, now)
              state == auth_start_state(method, continuation, attr_url,
                                        config, now)
              encoded == encode_urlstate(config, state.val, now)
          IN  /\ req' = [kind |-> "auth_start", auth_method |-> tag,
                         attributes |-> attributes,
                         continuation |-> continuation, attr_url |-> attr_url]
              /\ enc' = IF state.some
                          THEN [kind |-> "encode", state |-> state.val,
                                at |-> now, result |-> encoded]
                          ELSE NoCall
              /\ token' = IF state.some /\ encoded.ok THEN encoded.val
                                                       ELSE NoToken
              /\ IF ar.ok
                   THEN /\ calls' = Append(calls,
                                          Send(AuthEndpoint(method), ar.val))
                        /\ pc' = "auth_wait"
                        /\ response' = response
                   ELSE /\ calls' = calls
                        /\ pc' = "done"
                        /\ response' = ar
    /\ UNCHANGED <<now, ticks, dec, comm_data, inbound>>
    /\ Replies
    /\ UNCHANGED bootVars

\* Time passes between the start and the callback.
TickAfterStart ==
    /\ pc = "done"
    /\ Tick

\* Time passes after a callback has been answered with a redirect.
TickAfterCallback ==
    /\ pc = "shim_done"
    /\ response.ok
    /\ ticks < MaxTicks
    /\ \E d \in ClockSteps : now' = now + d
    /\ ticks' = ticks + 1
    /\ UNCHANGED <<token, enc, dec>>
    /\ UNCHANGED bootVars
    /\ UNCHANGED startVars

\* How many results are posted in a behaviour.
MaxCallbacks == 2

\* The results that callbacks have posted so far.
posted_results ==
    {i \in DOMAIN calls : calls[i].ev = "send" /\ calls[i].to.path = ""}

\* The tokens a callback may carry: before any start those from outside,
\* after a start that took the shim path the one the provider was given,
\* and after a callback that was answered with a redirect the token of that
\* callback, once more.
ShimTokens ==
    IF pc = "idle" THEN ShimForeignTokens
    ELSE IF pc = "shim_done"
        THEN IF response.ok THEN {inbound.state} ELSE {}
    ELSE IF token # NoToken THEN {token}
    ELSE {}

\* GET /auth_attr_shim/<state>?<result>: the state is unpacked and the
\* result is posted to the attr_url.
ShimCallback ==
    /\ pc \in {"idle", "done", "shim_done"}
    /\ Cardinality(posted_results) < MaxCallbacks
    /\ \E state \in ShimTokens, result \in ShimResults :
          LET u == unpack_state(config, state, now) IN
            /\ inbound' = [route |-> "auth_attr_shim", state |-> state,
                           result |-> result]
            /\ dec' = [kind |-> "decode", token |-> state, at |-> now,
                       result |-> decode_urlstate(config, state, now)]
            /\ IF u.ok
                 THEN /\ calls' = Append(calls,
                                        Send(UrlEndpoint(u.val.attr_url),
                                             AttrPost(result)))
                      /\ pc' = "shim_wait"
                      /\ response' = response
                 ELSE /\ calls' = calls
                      /\ pc' = "shim_done"
                      /\ response' = u
    /\ UNCHANGED <<now, ticks, token, enc, req, comm_data>>
    /\ Replies
    /\ UNCHANGED bootVars

\* The POST of the result ends; the caller is redirected.
ShimPostResponds ==
    /\ pc = "shim_wait"
    /\ \E outcome \in AttrPostOutcomes :
          LET pr == attr_post_result(outcome)
              u == unpack_state(config, inbound.state, dec.at)
          IN  /\ calls' = Append(calls, Recv(calls[Len(calls)].to, outcome))
              /\ pc' = "shim_done"
              /\ response' = IF pr.ok THEN Ok(Redirect(u.val.continuation))
                                      ELSE pr
    /\ UNCHANGED <<req, comm_data, inbound>>
    /\ Replies
    /\ UNCHANGED bootVars
    /\ UNCHANGED codecVars

NextShim ==
    \/ AuthStart
    \/ AuthResponds
    \/ TickAfterStart
    \/ ShimCallback
    \/ TickAfterCallback
    \/ ShimPostResponds

SpecShim == InitShim /\ [][NextShim]_vars

(***************************************************************************)
(* options.rs: session_options.                                            *)
(***************************************************************************)
MethodProperties(method) ==
    [tag |-> method.tag, name |-> method.name,
     image_path |-> method.image_path]

SessionOptions(auth_methods, comm_methods) ==
    [auth_methods |-> auth_methods, comm_methods |-> comm_methods]

\* A variant that describes every method of the registry.
filter_methods_by_tags_unfiltered(tags, methods) ==
    LET keys == CHOOSE s \in KeyOrders(methods) : TRUE IN
    Ok([i \in DOMAIN keys |-> MethodProperties(methods[keys[i]])])

\* tags.map(|t| methods.get(t).ok_or_else(NoSuchMethod)...).collect(): the
\* descriptors in the order of the tags, or the first tag without a method.
filter_methods_by_tags(tags, methods) ==
    LET missing == {i \in DOMAIN tags : tags[i] \notin DOMAIN methods} IN
    IF missing # {}
        THEN Err("NoSuchMethod",
                 tags[CHOOSE i \in missing : \A j \in missing : i <= j])
        ELSE Ok([i \in DOMAIN tags |-> MethodProperties(methods[tags[i]])])

session_options(cfg, purpose_tag) ==
    IF purpose_tag \notin DOMAIN cfg.purposes
        THEN Err("NoSuchPurpose", purpose_tag)
    ELSE LET p == cfg.purposes[purpose_tag]
             auth_methods == filter_methods_by_tags(p.allowed_auth,
                                                    cfg.auth_methods)
             comm_methods == filter_methods_by_tags(p.allowed_comm,
                                                    cfg.comm_methods)
         IN  IF ~auth_methods.ok THEN auth_methods
             ELSE IF ~comm_methods.ok THEN comm_methods
             ELSE Ok(SessionOptions(auth_methods.val, comm_methods.val))

\* GET /session_options/<purpose>
GetSessionOptions ==
    /\ booted = "ok"
    /\ pc = "idle"
    /\ \E purpose_tag \in PurposeInputs :
          LET r == session_options(config, purpose_tag) IN
            /\ inbound' = [route |-> "session_options",
                           purpose |-> purpose_tag]
            /\ response' = r
            /\ reply' = IF r.ok THEN respond_to_json(r.val)
                                ELSE respond_to_error(r)
    /\ pc' = "done"
    /\ UNCHANGED <<req, calls, comm_data>>
    /\ UNCHANGED bootVars
    /\ UNCHANGED codecVars

NextOptions == Boot \/ GetSessionOptions

SpecOptions == InitBoot /\ [][NextOptions]_vars

(***************************************************************************)
(* SpecServe: the server after boot.  A request is handled by any of the   *)
(* handlers while, between two of its steps, a registry lookup of another  *)
(* request takes place on the same CoreConfig.                             *)
(***************************************************************************)
InitServe ==
    /\ raw = TestRawConfig(TRUE, TRUE, TRUE)
    /\ booted = "ok"
    /\ keyorder = <<<<"digid", "irma">>, <<"call", "chat">>>>
    /\ config = CoreConfigFrom(raw, keyorder[1], keyorder[2])
    /\ lookup = NoLookup
    /\ InitRest

\* A variant of the lookup that, for a registered method which the purpose
\* does not allow, adds the method to the allow-list of the purpose.
LookupAuthMeanwhile_widening ==
    /\ lookup = NoLookup
    /\ booted = "ok"
    /\ \E p \in DOMAIN config.purposes, t \in TagInputs :
          /\ lookup' = [kind |-> "auth", purpose |-> p, tag |-> t,
                        result |-> auth_method(config, config.purposes[p], t)]
          /\ config' =
                IF t \in DOMAIN config.auth_methods
                      /\ t \notin Range(config.purposes[p].allowed_auth)
                  THEN [config EXCEPT !.purposes[p].allowed_auth
                                          = Append(@, t)]
                  ELSE config
    /\ UNCHANGED <<raw, booted, keyorder>>
    /\ UNCHANGED codecVars
    /\ UNCHANGED startVars

\* The other request looks an auth method up, or a comm method.
LookupAuthMeanwhile ==
    /\ lookup = NoLookup
    /\ LookupAuth

LookupCommMeanwhile ==
    /\ lookup = NoLookup
    /\ LookupComm

NextServe ==
    \/ Next
    \/ ShimCallback
    \/ ShimPostResponds
    \/ GetSessionOptions
    \/ LookupAuthMeanwhile
    \/ LookupCommMeanwhile

SpecServe == InitServe /\ [][NextServe]_vars

(***************************************************************************)
(* Properties of the Full start (Spec).                                    *)
(***************************************************************************)
\* The purpose of the request is known and allows both of its methods.
Resolves ==
    /\ req.kind = "full"
    /\ req.purpose \in DOMAIN config.purposes
    /\ req.auth_method \in Range(config.purposes[req.purpose].allowed_auth)
    /\ req.comm_method \in Range(config.purposes[req.purpose].allowed_comm)

\* The request names an unknown purpose, or a method that is unknown or
\* that its purpose does not allow.
Unacceptable ==
    /\ req.kind = "full"
    /\ \/ req.purpose \notin DOMAIN config.purposes
       \/ req.auth_method \notin DOMAIN config.auth_methods
       \/ req.comm_method \notin DOMAIN config.comm_methods
       \/ req.auth_method \notin Range(config.purposes[req.purpose].allowed_auth)
       \/ req.comm_method \notin Range(config.purposes[req.purpose].allowed_comm)

SendsTo(path) ==
    {i \in DOMAIN calls : calls[i].ev = "send" /\ calls[i].to.path = path}

RecvsFrom(path) ==
    {i \in DOMAIN calls : calls[i].ev = "recv" /\ calls[i].to.path = path}

InFlight ==
    Cardinality({i \in DOMAIN calls : calls[i].ev = "send"})
        - Cardinality({i \in DOMAIN calls : calls[i].ev = "recv"})

\* C1: in every Full start whose purpose and methods resolve, the call to
\* start_communication is issued exactly once, to the chosen comm method,
\* with the purpose tag and no auth result; it has completed before the
\* call to start_authentication is issued, and at no time are two calls in
\* flight.
C1_CommOnceThenAuth ==
    Resolves =>
        /\ Cardinality(SendsTo("/start_communication")) = 1
        /\ \A i \in SendsTo("/start_communication") :
              /\ calls[i].body = [purpose |-> req.purpose, auth_result |-> None]
              /\ calls[i].to.base = config.comm_methods[req.comm_method].start
        /\ \A j \in SendsTo("/start_authentication") :
              \E i \in SendsTo("/start_communication") :
              \E k \in RecvsFrom("/start_communication") : i < k /\ k < j
        /\ InFlight \in {0, 1}

\* A Full start that went through both providers and succeeded.
C1_Witness ==
    /\ Resolves
    /\ pc = "done"
    /\ response.ok
    /\ Len(calls) = 4

\* The auth method of the request has neither of its shim flags set.
NoShimFlags ==
    /\ ~config.auth_methods[req.auth_method].disable_attr_url
    /\ ~config.auth_methods[req.auth_method].shim_tel_url

\* C2: in a successful Full start with no shim flag on the auth method, the
\* auth provider was called with the attributes of the purpose, with the
\* client_url that the comm provider returned as continuation and with the
\* attr_url that the comm provider returned; the result is the client_url
\* that the auth provider returned.
C2_FullStartStitching ==
    (Resolves /\ pc = "done" /\ response.ok /\ NoShimFlags) =>
        \E i \in RecvsFrom("/start_communication") :
        \E j \in SendsTo("/start_authentication") :
        \E k \in RecvsFrom("/start_authentication") :
            /\ i < j /\ j < k
            /\ calls[j].to.base = config.auth_methods[req.auth_method].start
            /\ calls[j].body.attributes = config.purposes[req.purpose].attributes
            /\ calls[j].body.continuation
                  = Plain(calls[i].outcome.body.client_url)
            /\ calls[j].body.attr_url = calls[i].outcome.body.attr_url
            /\ response.val = [client_url |-> calls[k].outcome.body.client_url]

\* A successful Full start, without shim flags, in which the comm provider
\* returned a tel: client_url and an attr_url.
C2_Witness ==
    /\ Resolves /\ pc = "done" /\ response.ok /\ NoShimFlags
    /\ comm_data.some
    /\ comm_data.val.attr_url.some
    /\ starts_with_tel(comm_data.val.client_url)

\* C3: a Full start that names an unknown purpose or an unknown or
\* disallowed auth or comm method is rejected, and no call goes out to
\* either provider.
C3_RejectedWithoutCalls ==
    Unacceptable =>
        /\ pc = "done"
        /\ ~response.ok
        /\ response.err \in {"NoSuchPurpose", "NoSuchMethod"}
        /\ calls = <<>>

\* A Full start with a known purpose and an allowed auth method, rejected
\* for a comm method that is registered but not allowed for the purpose.
C3_Witness ==
    /\ req.kind = "full"
    /\ req.purpose \in DOMAIN config.purposes
    /\ req.auth_method \in Range(config.purposes[req.purpose].allowed_auth)
    /\ req.comm_method \in DOMAIN config.comm_methods
    /\ req.comm_method \notin Range(config.purposes[req.purpose].allowed_comm)
    /\ response = Err("NoSuchMethod", req.comm_method)
    /\ calls = <<>>

(***************************************************************************)
(* Properties of the registries (SpecBoot).                                *)
(***************************************************************************)
RawAuthTags == {raw.auth_methods[i].tag : i \in DOMAIN raw.auth_methods}

RawCommTags == {raw.comm_methods[i].tag : i \in DOMAIN raw.comm_methods}

\* The raw purpose that the purpose registry keeps under tag k: the last one.
Retained(i) ==
    \A j \in DOMAIN raw.purposes :
        raw.purposes[j].tag = raw.purposes[i].tag => j <= i

\* Raw purpose i names, in a list without a wildcard, a tag of no method.
NamesAbsentMethod(i) ==
    \/ /\ ~contains_wildcard(raw.purposes[i].allowed_auth)
       /\ \E t \in Range(raw.purposes[i].allowed_auth) : t \notin RawAuthTags
    \/ /\ ~contains_wildcard(raw.purposes[i].allowed_comm)
       /\ \E t \in Range(raw.purposes[i].allowed_comm) : t \notin RawCommTags

AllowListsInRegistry ==
    \A k \in DOMAIN config.purposes :
        /\ Range(config.purposes[k].allowed_auth) \subseteq DOMAIN config.auth_methods
        /\ Range(config.purposes[k].allowed_comm) \subseteq DOMAIN config.comm_methods

\* C4: a lookup of tag t for purpose P fails with NoSuchMethod whenever t is
\* not in P's allow-list (also when t is a key of the registry), and returns
\* the descriptor with tag t when t is in the allow-list; for auth_method
\* and for comm_method alike.
C4_AllowListEnforced ==
    lookup.kind \in {"auth", "comm"} =>
        LET P == config.purposes[lookup.purpose]
            allowed == IF lookup.kind = "auth"
                         THEN Range(P.allowed_auth)
                         ELSE Range(P.allowed_comm)
        IN  IF lookup.tag \notin allowed
              THEN lookup.result = Err("NoSuchMethod", lookup.tag)
              ELSE /\ lookup.result.ok
                   /\ lookup.result.val.tag = lookup.tag

\* A lookup of a registered auth method that the purpose does not allow.
C4_Witness ==
    /\ lookup.kind = "auth"
    /\ lookup.tag \in DOMAIN config.auth_methods
    /\ lookup.tag \notin Range(config.purposes[lookup.purpose].allowed_auth)
    /\ ~lookup.result.ok

\* C5 as stated: construction fails or yields allow-lists within the
\* registries, and ANY raw purpose that names an absent method tag (in a
\* list without a wildcard) makes construction fail.
C5_AnyPurposeFailsClosed ==
    booted # "raw" =>
        /\ booted = "ok" => AllowListsInRegistry
        /\ (\E i \in DOMAIN raw.purposes : NamesAbsentMethod(i))
              => booted = "panic"

\* C5 amended: construction fails or yields allow-lists within the
\* registries, and a raw purpose that the purpose registry retains (the last
\* raw purpose with its tag) and that names an absent method tag (in a list
\* without a wildcard) makes construction fail.
C5_RetainedPurposeFailsClosed ==
    booted # "raw" =>
        /\ booted = "ok" => AllowListsInRegistry
        /\ (\E i \in DOMAIN raw.purposes : Retained(i) /\ NamesAbsentMethod(i))
              => booted = "panic"

\* Construction panicked on a retained purpose naming an absent method.
C5_Witness ==
    /\ booted = "panic"
    /\ \E i \in DOMAIN raw.purposes : Retained(i) /\ NamesAbsentMethod(i)

\* C6: for a purpose whose raw allowed_auth is ["*"], the resolved
\* allowed_auth is, as a set, the set of the tags of the auth methods;
\* likewise allowed_comm; a list without a wildcard is left unchanged.
C6_WildcardExpansion ==
    booted = "ok" =>
        \A i \in DOMAIN raw.purposes :
            Retained(i) =>
                LET rp == raw.purposes[i]
                    p == config.purposes[rp.tag]
                IN  /\ rp.allowed_auth = <<"*">>
                        => Range(p.allowed_auth) = RawAuthTags
                    /\ rp.allowed_comm = <<"*">>
                        => Range(p.allowed_comm) = RawCommTags
                    /\ ~contains_wildcard(rp.allowed_auth)
                        => p.allowed_auth = rp.allowed_auth
                    /\ ~contains_wildcard(rp.allowed_comm)
                        => p.allowed_comm = rp.allowed_comm

\* A constructed registry with two auth methods and a purpose whose raw
\* allowed_auth is ["*"] next to a comm list without a wildcard.
C6_Witness ==
    /\ booted = "ok"
    /\ Cardinality(RawAuthTags) = 2
    /\ \E i \in DOMAIN raw.purposes :
          /\ Retained(i)
          /\ raw.purposes[i].allowed_auth = <<"*">>
          /\ ~contains_wildcard(raw.purposes[i].allowed_comm)

(***************************************************************************)
(* Properties of the signed url-state codec (SpecCodec).                   *)
(***************************************************************************)
\* The last decode was of the token that encode_urlstate produced.
DecodedOwnToken ==
    /\ enc.kind = "encode"
    /\ enc.result.ok
    /\ dec.kind = "decode"
    /\ dec.token = enc.result.val

\* The whole second, in ticks, at which the encoded token expires.
ExpiryOfEncoded == Secs(AsSecs(enc.at) + UrlStateValiditySecs)

\* C7 as stated: for ANY map m of strings, encode_urlstate(m) yields a token
\* and decode_urlstate of it, within the validity window, returns exactly m.
C7_RoundTripAnyMap ==
    /\ enc.kind = "encode" => enc.result.ok
    /\ (DecodedOwnToken /\ dec.at < ExpiryOfEncoded)
          => dec.result = Ok(enc.state)

\* C7 amended: for any map m of strings none of whose keys is one of the
\* numeric JWT claim names exp, iat, nbf, encode_urlstate(m) yields a token
\* and decode_urlstate of it, within the validity window, returns exactly m.
C7_RoundTripUnreservedKeys ==
    /\ (enc.kind = "encode" /\ DOMAIN enc.state \cap NumericClaims = {})
          => enc.result.ok
    /\ (DecodedOwnToken /\ dec.at < ExpiryOfEncoded)
          => dec.result = Ok(enc.state)

\* A map of two entries came back from a decode later than its encode.
C7_Witness ==
    /\ DecodedOwnToken
    /\ dec.at > enc.at
    /\ dec.result.ok
    /\ DOMAIN enc.state = {"attr_url", "continuation"}
    /\ enc.state["attr_url"] # enc.state["continuation"]

HasNum(p, k) == k \in DOMAIN p /\ IsNum(p[k])

\* C9: decode_urlstate rejects every token for which the current time is
\* before its issued-at or after its expiry, a correctly signed token that
\* was issued in the future included.
C9_RejectsOutsideWindow ==
    (dec.kind = "decode" /\ dec.token.kind = "jwt") =>
        LET p == dec.token.payload IN
            (\/ HasNum(p, "iat") /\ dec.at < Secs(p["iat"].num)
             \/ HasNum(p, "exp") /\ dec.at > Secs(p["exp"].num))
                => ~dec.result.ok

\* A correctly signed, unexpired token with an issued-at in the future was
\* rejected by the validation.
C9_Witness ==
    /\ dec.kind = "decode"
    /\ dec.token.kind = "jwt"
    /\ dec.token.sig = Hmac(config.internal_secret, dec.token.payload)
    /\ HasNum(dec.token.payload, "iat")
    /\ dec.at < Secs(dec.token.payload["iat"].num)
    /\ HasNum(dec.token.payload, "exp")
    /\ dec.at < Secs(dec.token.payload["exp"].num)
    /\ dec.result = Err("Jwt", "validation")

\* The token carries the HMAC of its payload under the internal secret.
SignedWithInternalSecret(tok) ==
    /\ tok.kind = "jwt"
    /\ tok.sig = Hmac(config.internal_secret, tok.payload)

\* C10: decode_urlstate fails for every token that is not signed with the
\* internal secret (another key, or an altered signature), and so returns
\* no entry of its payload.
C10_RejectsForeignSignature ==
    (dec.kind = "decode" /\ ~SignedWithInternalSecret(dec.token))
        => ~dec.result.ok

\* A token signed with another key, otherwise valid at the time, was refused.
C10_Witness ==
    /\ dec.kind = "decode"
    /\ dec.token.kind = "jwt"
    /\ dec.token.sig = Hmac("other_secret", dec.token.payload)
    /\ \A k \in DOMAIN dec.token.payload : ClaimTypeOk(k, dec.token.payload[k])
    /\ validate(dec.token.payload, dec.at)
    /\ claims_to_state(dec.token.payload).ok
    /\ DOMAIN dec.token.payload = {"iat", "exp", "attr_url", "continuation"}
    /\ dec.result = Err("Jwt", "signature")

(***************************************************************************)
(* Properties of AuthenticationMethod::start and of the attribute-shim     *)
(* callback (SpecShim).                                                    *)
(***************************************************************************)
\* The callback handler has been entered.
InCallback == pc \in {"shim_wait", "shim_done"}

\* The POSTs of a result that the callback has issued.
ShimPosts ==
    {i \in DOMAIN calls : calls[i].ev = "send" /\ calls[i].to.path = ""}

\* The handler's answer is a redirect.
Redirected == pc = "shim_done" /\ response.ok

\* C11 as stated: when the callback fails to decode the state token (bad
\* signature, malformed payload, expired), the caller gets a bad-request
\* response, as for any other bad request, and there is no outbound POST
\* and no redirect.
C11_DecodeFailureIsBadRequest ==
    (InCallback /\ ~dec.result.ok) =>
        /\ pc = "shim_done"
        /\ ~response.ok
        /\ respond_to_error(response) = respond_to_error(BadRequest)
        /\ ShimPosts = {}

\* An expired token with a correct signature was answered through the
\* server-error path, with no POST and no redirect.
C11_Witness ==
    /\ InCallback
    /\ SignedWithInternalSecret(dec.token)
    /\ dec.result = Err("Jwt", "validation")
    /\ pc = "shim_done"
    /\ respond_to_error(response).status = 500
    /\ ShimPosts = {}

\* start has been called (directly, as the orchestrations call it).
StartCalled == req.kind = "auth_start"

\* An attribute-delivery URL is supplied and the method has disable_attr_url.
ShimApplies ==
    /\ req.attr_url.some
    /\ config.auth_methods[req.auth_method].disable_attr_url

\* The tel rewrite applies: the method has shim_tel_url and the continuation
\* is a tel: URL.
TelApplies ==
    /\ config.auth_methods[req.auth_method].shim_tel_url
    /\ starts_with_tel(req.continuation)

\* The request that start sent to the auth provider.
SentToAuth == calls[1].body

\* A url of the form <ui_tel_url><token>, the token carrying the url c as
\* its continuation claim.
IsTelShimUrl(url, c) ==
    /\ DOMAIN url = {"prefix", "token"}
    /\ url.prefix = config.ui_tel_url
    /\ url.token.payload["continuation"] = Str(c)

\* C12: start uses the attribute shim exactly when an attr_url is supplied
\* and the method has disable_attr_url: the request then has no attr_url and
\* its continuation is not the original one but <server_url>/auth_attr_shim/
\* followed by the state token that was created; in every other case the
\* attr_url (or none) is sent as given and no state token is created.
C12_AttrShimExactlyWhenFlagAndUrl ==
    StartCalled =>
        /\ calls # <<>>
        /\ calls[1] = Send(AuthEndpoint(config.auth_methods[req.auth_method]),
                           SentToAuth)
        /\ IF ShimApplies
             THEN /\ SentToAuth.attr_url = None
                  /\ SentToAuth.continuation # Plain(req.continuation)
                  /\ enc.kind = "encode"
                  /\ enc.result.ok
                  /\ SignedWithInternalSecret(enc.result.val)
                  /\ SentToAuth.continuation
                        = Concat(<<config.server_url, "/auth_attr_shim/">>,
                                 enc.result.val)
             ELSE /\ SentToAuth.attr_url = req.attr_url
                  /\ enc = NoCall
                  /\ token = NoToken
                  /\ \/ SentToAuth.continuation = Plain(req.continuation)
                     \/ IsTelShimUrl(SentToAuth.continuation, req.continuation)

\* A start that took the shim path, and whose provider answered.
C12_Witness ==
    /\ StartCalled
    /\ ShimApplies
    /\ pc = "done"
    /\ response.ok
    /\ SentToAuth.attr_url = None

\* The callback was called with the token of the start, inside the token's
\* validity, and its POST (if any) was answered.
CallbackOfStart ==
    /\ InCallback
    /\ StartCalled
    /\ token # NoToken
    /\ inbound.state = token
    /\ dec.at >= enc.at
    /\ dec.at < ExpiryOfEncoded

\* The POST of the callback was answered (with whatever status).
PostAnswered ==
    /\ pc = "shim_done"
    /\ calls[Len(calls)].ev = "recv"
    /\ calls[Len(calls)].outcome # TransportFailure

\* The callback posted the result it was given to the url A of the start.
PostedResultToA ==
    /\ ShimPosts # {}
    /\ \A i \in ShimPosts :
          calls[i].to = UrlEndpoint(req.attr_url.val)
    /\ \E i \in ShimPosts :
          /\ i >= Len(calls) - 1
          /\ calls[i] = Send(UrlEndpoint(req.attr_url.val),
                             AttrPost(inbound.result))

\* C13 as stated: after a start that took the shim path with attr_url A and
\* continuation C, the callback with the shim token and a result r, within
\* the validity window, posts r to A and then redirects the caller to C.
C13_ShimRoundTripToC ==
    CallbackOfStart =>
        /\ PostedResultToA
        /\ PostAnswered => response = Ok(Redirect(Plain(req.continuation)))

\* C13 amended: ... posts r to A and then, the POST having been answered,
\* redirects the caller to the continuation as start passed it on: to C, or,
\* when the method has shim_tel_url and C is a tel: URL, to the UI tel URL
\* that carries C in a signed token.
C13_ShimRoundTripToPassedOn ==
    CallbackOfStart =>
        /\ PostedResultToA
        /\ PostAnswered =>
              /\ response.ok
              /\ IF TelApplies
                   THEN IsTelShimUrl(response.val.redirect, req.continuation)
                   ELSE response.val = Redirect(Plain(req.continuation))

\* A callback later than the start, answered with a redirect to C itself.
C13_Witness ==
    /\ CallbackOfStart
    /\ dec.at > enc.at
    /\ PostAnswered
    /\ PostedResultToA
    /\ response = Ok(Redirect(Plain(req.continuation)))

\* C14 as stated: the continuation that start sends is, when the method has
\* shim_tel_url and the continuation is a tel: URL, the UI tel URL followed
\* by a signed token and not the raw tel: URL; in every other case it is the
\* continuation unchanged.
C14_TelRewriteOfSentContinuation ==
    StartCalled =>
        IF TelApplies
          THEN /\ IsTelShimUrl(SentToAuth.continuation, req.continuation)
               /\ SentToAuth.continuation # Plain(req.continuation)
          ELSE SentToAuth.continuation = Plain(req.continuation)

\* The continuation that start passes on: the one it sends, or, on the
\* attribute-shim path, the one inside the state token it sends.
PassedOn ==
    IF ShimApplies
      THEN SentToAuth.continuation.token.payload["continuation"].str
      ELSE SentToAuth.continuation

\* C14 amended: the continuation that start passes on (to the provider, or
\* on the attribute-shim path into the state token, the provider then getting
\* the /auth_attr_shim/ URL) is, when the method has shim_tel_url and the
\* continuation is a tel: URL, the UI tel URL followed by a signed token and
\* not the raw tel: URL; in every other case it is the continuation
\* unchanged.
C14_TelRewriteOfPassedOnContinuation ==
    StartCalled =>
        /\ IF TelApplies
             THEN /\ IsTelShimUrl(PassedOn, req.continuation)
                  /\ PassedOn # Plain(req.continuation)
             ELSE PassedOn = Plain(req.continuation)
        /\ SentToAuth.continuation # Plain(req.continuation)
              => (TelApplies \/ ShimApplies)

\* A tel: continuation was rewritten and sent, without the attribute shim.
C14_Witness ==
    /\ StartCalled
    /\ TelApplies
    /\ ~ShimApplies
    /\ IsTelShimUrl(SentToAuth.continuation, req.continuation)
    /\ pc = "done"

(***************************************************************************)
(* Properties of the Auth-only and Comm-only starts and of the dispatch    *)
(* (Spec).                                                                 *)
(***************************************************************************)
\* A request has arrived over the given route.
Arrived(route) == pc # "idle" /\ inbound.route = route

\* The handler has answered with an error and has called no one.
RejectedWith(e) == pc = "done" /\ response = e /\ calls = <<>>

\* An Auth-only start is run, and the request object that the caller signed.
AuthOnlyRun == pc # "idle" /\ req.kind = "auth_only"

Supplied == inbound.body.payload["request"].obj

SuppliedAttrUrl ==
    IF "attr_url" \in DOMAIN Supplied THEN Some(Supplied["attr_url"].str)
                                      ELSE None

AuthOnlyResolves ==
    /\ AuthOnlyRun
    /\ req.purpose \in DOMAIN config.purposes
    /\ req.auth_method \in Range(config.purposes[req.purpose].allowed_auth)

\* The shims of the auth method that apply to an Auth-only start.
AuthOnlyAttrShim ==
    /\ SuppliedAttrUrl.some
    /\ config.auth_methods[req.auth_method].disable_attr_url

AuthOnlyTelShim ==
    /\ config.auth_methods[req.auth_method].shim_tel_url
    /\ starts_with_tel(Supplied["comm_url"].str)

\* What every Auth-only start does, whatever the flags of its auth method:
\* no call to the comm provider; one call to the auth provider, with the
\* attributes of the purpose; the auth provider's client_url as the result.
AuthOnlyDrivesAuthOnly ==
    /\ SendsTo("/start_communication") = {}
    /\ AuthOnlyResolves =>
          /\ Cardinality(SendsTo("/start_authentication")) = 1
          /\ calls[1].ev = "send"
          /\ calls[1].to
                = AuthEndpoint(config.auth_methods[Supplied["auth_method"].str])
          /\ calls[1].body.attributes
                = config.purposes[Supplied["purpose"].str].attributes
    /\ (pc = "done" /\ response.ok) =>
          /\ Len(calls) = 2
          /\ response.val = [client_url |-> calls[2].outcome.body.client_url]

\* C15 as stated: an Auth-only start never calls the comm provider, calls
\* the auth provider once, with the attributes of the purpose, the
\* caller-supplied comm_url as continuation and the caller-supplied attr_url
\* (or none), and the auth provider's client_url is the result.
C15_AuthOnlyAsSupplied ==
    AuthOnlyRun =>
        /\ AuthOnlyDrivesAuthOnly
        /\ AuthOnlyResolves =>
              /\ calls[1].body.continuation = Plain(Supplied["comm_url"].str)
              /\ calls[1].body.attr_url = SuppliedAttrUrl

\* C15 amended: ... calls the auth provider once, with the attributes of the
\* purpose and with the caller-supplied comm_url and attr_url as
\* AuthenticationMethod::start passes them on: the attr_url (or none) as
\* given unless the method has disable_attr_url and an attr_url is supplied
\* (then none is sent and the continuation is the /auth_attr_shim/ URL),
\* the comm_url as continuation unless that shim applies or the method has
\* shim_tel_url and the comm_url is a tel: URL (then the UI tel URL with a
\* signed token is sent); the auth provider's client_url is the result.
C15_AuthOnlyAsPassedOn ==
    AuthOnlyRun =>
        /\ AuthOnlyDrivesAuthOnly
        /\ AuthOnlyResolves =>
              LET sent == calls[1].body IN
              /\ ~AuthOnlyAttrShim => sent.attr_url = SuppliedAttrUrl
              /\ (~AuthOnlyAttrShim /\ ~AuthOnlyTelShim)
                    => sent.continuation = Plain(Supplied["comm_url"].str)
              /\ (~AuthOnlyAttrShim /\ AuthOnlyTelShim)
                    => IsTelShimUrl(sent.continuation,
                                    Supplied["comm_url"].str)
              /\ AuthOnlyAttrShim =>
                    /\ sent.attr_url = None
                    /\ DOMAIN sent.continuation = {"prefix", "token"}
                    /\ sent.continuation.prefix
                          = <<config.server_url, "/auth_attr_shim/">>

\* A successful Auth-only start with an attr_url and a tel: comm_url, both
\* sent on as given.
C15_Witness ==
    /\ AuthOnlyResolves
    /\ pc = "done"
    /\ response.ok
    /\ SuppliedAttrUrl.some
    /\ calls[1].body.attr_url = SuppliedAttrUrl
    /\ starts_with_tel(Supplied["comm_url"].str)
    /\ calls[1].body.continuation = Plain(Supplied["comm_url"].str)

\* A Comm-only start is run; the fields of the body that the caller sent.
CommOnlyRun == pc # "idle" /\ req.kind = "comm_only"

SuppliedFields == inbound.body.fields

CommOnlyResolves ==
    /\ CommOnlyRun
    /\ req.purpose \in DOMAIN config.purposes
    /\ req.comm_method \in Range(config.purposes[req.purpose].allowed_comm)

\* The comm method of the request is flagged disable_attributes_at_start.
Fallback == config.comm_methods[req.comm_method].disable_attributes_at_start

\* What every Comm-only start does, whatever the flag of its comm method: no
\* call to the auth provider; a comm method outside the allow-list of the
\* purpose is refused; the first call goes to the comm provider, once, with
\* the purpose tag.
CommOnlyDrivesCommOnly ==
    /\ SendsTo("/start_authentication") = {}
    /\ ~CommOnlyResolves =>
          /\ pc = "done"
          /\ ~response.ok
          /\ response.err \in {"NoSuchPurpose", "NoSuchMethod"}
          /\ calls = <<>>
    /\ CommOnlyResolves =>
          /\ Cardinality(SendsTo("/start_communication")) = 1
          /\ calls[1].ev = "send"
          /\ calls[1].to
                = CommEndpoint(config.comm_methods[SuppliedFields["comm_method"].str])
          /\ calls[1].body.purpose = SuppliedFields["purpose"].str

\* C16 as stated: a Comm-only start never calls the auth provider, requires
\* the comm method to be in the allow-list of the purpose, hands the comm
\* provider the purpose tag and the caller-supplied auth result, and the
\* comm provider's client_url is the result.
C16_CommOnlyForwardsResult ==
    CommOnlyRun =>
        /\ CommOnlyDrivesCommOnly
        /\ CommOnlyResolves =>
              calls[1].body.auth_result
                  = Some(SuppliedFields["auth_result"].str)
        /\ (pc = "done" /\ response.ok) =>
              response.val
                  = [client_url |-> Plain(calls[2].outcome.body.client_url)]

\* C16 amended: ... for a comm method without disable_attributes_at_start
\* the comm provider is handed the purpose tag and the caller-supplied auth
\* result, and the comm provider's client_url is the result; for a comm
\* method with that flag the provider is handed the purpose tag only, and
\* the result is the provider's client_url either unmodified (the auth
\* result was posted to the attr_url) or with the auth result appended as
\* query parameters.
C16_CommOnlyForwardsResultUnlessFallback ==
    CommOnlyRun =>
        /\ CommOnlyDrivesCommOnly
        /\ CommOnlyResolves =>
              calls[1].body.auth_result
                  = IF Fallback THEN None
                    ELSE Some(SuppliedFields["auth_result"].str)
        /\ (pc = "done" /\ response.ok) =>
              LET c == calls[2].outcome.body.client_url IN
              IF ~Fallback
                THEN response.val = [client_url |-> Plain(c)]
                ELSE response.val.client_url
                        \in {Plain(c),
                             Appended(c, SuppliedFields["auth_result"].str)}

\* A successful Comm-only start with a comm method that takes the auth
\* result at start.
C16_Witness ==
    /\ CommOnlyResolves
    /\ ~Fallback
    /\ pc = "done"
    /\ response.ok
    /\ calls[1].body.auth_result = Some(SuppliedFields["auth_result"].str)
    /\ response.val = [client_url |-> Plain(calls[2].outcome.body.client_url)]

\* The signature of the JWT body verifies against the key that its key id
\* names in the key registry.
VerifiesAgainstNamedKey(jwt) ==
    /\ jwt.kind = "jwt"
    /\ jwt.kid.some
    /\ jwt.kid.val \in DOMAIN config.authonly_request_keys
    /\ jwt.sig = Signature(config.authonly_request_keys[jwt.kid.val],
                           jwt.payload)

\* The expiry of the JWT body, if it has one, has not passed.
NotExpired(jwt) ==
    "exp" \in DOMAIN jwt.payload => now < Secs(jwt.payload["exp"].num)

\* C17: a JWT body is honoured (run as an Auth-only start) only if its
\* signature verifies against the key its key id names in the registry and
\* its expiry has not passed; one signed with another key, naming no or an
\* unknown key id, or expired is refused as a bad request, and no call goes
\* out.
C17_JwtHonouredOnlyIfVerified ==
    Arrived("jwt") =>
        /\ req.kind = "auth_only" =>
              /\ VerifiesAgainstNamedKey(inbound.body)
              /\ NotExpired(inbound.body)
        /\ ~(VerifiesAgainstNamedKey(inbound.body) /\ NotExpired(inbound.body))
              => /\ RejectedWith(BadRequest)
                 /\ respond_to_error(response).status = 400

\* A JWT naming the registered key id, signed with another key, carrying an
\* unexpired request that would resolve, was refused.
C17_Witness ==
    /\ Arrived("jwt")
    /\ inbound.body.kind = "jwt"
    /\ inbound.body.kid = Some("test")
    /\ inbound.body.sig = Signature("other_key", inbound.body.payload)
    /\ "exp" \in DOMAIN inbound.body.payload
    /\ validate(inbound.body.payload, now)
    /\ "request" \in DOMAIN inbound.body.payload
    /\ from_value_StartRequestAuthOnly(inbound.body.payload["request"]).ok
    /\ Supplied["purpose"] = Str("report_move")
    /\ Supplied["auth_method"] = Str("irma")
    /\ RejectedWith(BadRequest)

\* The JSON body has the Auth-only shape: purpose, auth_method and comm_url,
\* with or without attr_url, and no comm_method.
AuthOnlyShaped(body) ==
    /\ body.kind = "object"
    /\ \A k \in {"purpose", "auth_method", "comm_url"} :
          k \in DOMAIN body.fields /\ IsStr(body.fields[k])
    /\ "comm_method" \notin DOMAIN body.fields

\* C18: a JSON body in the Auth-only shape is refused with a response that
\* is not OK and causes no call to the auth provider; an Auth-only start is
\* run for JWT bodies only.
C18_UnsignedAuthOnlyRefused ==
    /\ (Arrived("json") /\ AuthOnlyShaped(inbound.body)) =>
          /\ pc = "done"
          /\ ~response.ok
          /\ respond_to_error(response).status # 200
          /\ SendsTo("/start_authentication") = {}
    /\ AuthOnlyRun => inbound.route = "jwt"

\* A JSON body with purpose, auth method, comm_url and attr_url that would
\* resolve as an Auth-only start, refused.
C18_Witness ==
    /\ Arrived("json")
    /\ AuthOnlyShaped(inbound.body)
    /\ "attr_url" \in DOMAIN inbound.body.fields
    /\ inbound.body.fields["purpose"] = Str("report_move")
    /\ inbound.body.fields["auth_method"] = Str("irma")
    /\ pc = "done"
    /\ ~response.ok
    /\ calls = <<>>

\* The body has all of the given fields, as strings.
HasAll(body, fields) ==
    /\ body.kind = "object"
    /\ \A k \in fields : k \in DOMAIN body.fields /\ IsStr(body.fields[k])

\* The JSON body fits none of the three shapes.
FitsNoShape(body) ==
    /\ ~HasAll(body, {"purpose", "auth_method", "comm_method"})
    /\ ~HasAll(body, {"purpose", "auth_result", "comm_method"})
    /\ ~HasAll(body, {"purpose", "auth_method", "comm_url"})

\* C19: a JSON request that fits none of the shapes (a required field is
\* missing, or the body is not JSON) is refused with a bad-request error,
\* and no call goes out to either provider.
C19_NoShapeIsBadRequest ==
    (Arrived("json") /\ FitsNoShape(inbound.body)) =>
        /\ RejectedWith(BadRequest)
        /\ respond_to_error(response).status = 400

\* A body with methods but no purpose, and a body that is not JSON, both
\* refused as bad requests.
C19_Witness ==
    /\ Arrived("json")
    /\ FitsNoShape(inbound.body)
    /\ RejectedWith(BadRequest)
    /\ \/ inbound.body.kind # "object"
       \/ /\ "purpose" \notin DOMAIN inbound.body.fields
          /\ {"auth_method", "comm_method"} \subseteq DOMAIN inbound.body.fields

\* The comm provider's answer to start carries a client_url and an attr_url.
StartReturnedAttrUrl ==
    /\ Len(calls) >= 2
    /\ calls[2].ev = "recv"
    /\ calls[2].outcome # TransportFailure
    /\ calls[2].outcome.body # Unparseable
    /\ calls[2].outcome.body.attr_url.some

\* The POSTs of the auth result.
AttrPosts ==
    {i \in DOMAIN calls : calls[i].ev = "send" /\ calls[i].to.path = ""}

\* C20: for a comm method with disable_attributes_at_start,
\* start_with_auth_result first calls plain start (the purpose, no auth
\* result); if the answer carries an attr_url it then posts the auth result
\* to that attr_url, and returns the client_url unmodified, with no
\* attr_url.  No POST precedes the start call or its answer.
C20_FallbackStartThenPost ==
    (CommOnlyResolves /\ Fallback) =>
        /\ calls[1] = Send(CommEndpoint(config.comm_methods[req.comm_method]),
                           [purpose |-> SuppliedFields["purpose"].str,
                            auth_result |-> None])
        /\ \A i \in AttrPosts : i = 3 /\ StartReturnedAttrUrl
        /\ StartReturnedAttrUrl =>
              /\ Len(calls) >= 3
              /\ calls[3] = Send(UrlEndpoint(calls[2].outcome.body.attr_url.val),
                                 AttrPost(SuppliedFields["auth_result"].str))
              /\ (pc = "done" /\ response.ok) =>
                    /\ comm_data = Some([client_url |->
                                            Plain(calls[2].outcome.body.client_url),
                                         attr_url |-> None])
                    /\ response.val
                          = [client_url |-> Plain(calls[2].outcome.body.client_url)]

\* A fallback in which the auth result was posted to the attr_url and the
\* client_url came back as the provider gave it.
C20_Witness ==
    /\ CommOnlyResolves
    /\ Fallback
    /\ StartReturnedAttrUrl
    /\ pc = "done"
    /\ response.ok
    /\ Len(calls) = 4
    /\ response.val = [client_url |-> Plain(calls[2].outcome.body.client_url)]

(***************************************************************************)
(* Properties of the comm fallback and of the outbound calls (Spec).       *)
(***************************************************************************)
\* The comm provider's answer to start carries a client_url and no attr_url.
StartReturnedNoAttrUrl ==
    /\ Len(calls) >= 2
    /\ calls[2].ev = "recv"
    /\ calls[2].outcome # TransportFailure
    /\ calls[2].outcome.body # Unparseable
    /\ ~calls[2].outcome.body.attr_url.some

\* C21: for a comm method with disable_attributes_at_start whose start
\* answer carries no attr_url, start_with_auth_result makes no second
\* outbound call and returns the client_url followed by
\* status=succes&attributes=<result>, joined with '&' when the client_url
\* already contains a '?' and with '?' otherwise.
C21_FallbackAppendsResult ==
    (CommOnlyResolves /\ Fallback /\ StartReturnedNoAttrUrl) =>
        LET c == calls[2].outcome.body.client_url
            joined == [url |-> c,
                       sep |-> IF c \in QueryUrls THEN "&" ELSE "?",
                       query |-> "status=succes&attributes=",
                       attributes |-> SuppliedFields["auth_result"].str]
        IN  /\ pc = "done"
            /\ Len(calls) = 2
            /\ comm_data = Some([client_url |-> joined, attr_url |-> None])
            /\ response = Ok([client_url |-> joined])

\* The auth result joined with '&' to a client_url that has a query.
C21_Witness ==
    /\ CommOnlyResolves
    /\ Fallback
    /\ StartReturnedNoAttrUrl
    /\ calls[2].outcome.body.client_url \in QueryUrls
    /\ pc = "done"
    /\ response.ok
    /\ response.val.client_url.sep = "&"
    /\ response.val.client_url.attributes = "result.jwt"

\* The answers of the comm provider's start_communication endpoint that came
\* with a status outside 2xx.
CommNon2xx ==
    {i \in RecvsFrom("/start_communication") :
        /\ calls[i].outcome # TransportFailure
        /\ ~is_success(calls[i].outcome.status)}

\* C22: an answer of the comm provider's start_communication endpoint with a
\* status outside 2xx is always an error, in CommunicationMethod::start (Full
\* start, fallback) and in start_with_auth_result: the request ends there
\* with that error, and no call follows; in a Full start the auth provider
\* is not called.
C22_CommNon2xxIsError ==
    \A i \in CommNon2xx :
        /\ i = Len(calls)
        /\ pc = "done"
        /\ ~response.ok
        /\ response.err = "Reqwest"
        /\ SendsTo("/start_authentication") = {}

\* A Full start whose comm provider answered 500 with a well-formed body,
\* and whose auth provider was called all the same.
C22_Witness ==
    /\ pc # "idle"
    /\ req.kind = "full"
    /\ CommNon2xx # {}
    /\ SendsTo("/start_authentication") # {}

(***************************************************************************)
(* Properties of the calls of AuthenticationMethod::start (SpecShim).      *)
(***************************************************************************)
\* start has returned, and no callback has been answered since.
StartReturned ==
    /\ StartCalled
    /\ pc \in {"done", "shim_wait"}
    /\ reply = NoReply

\* The call of start failed in transport or came back with a status other
\* than success.
AuthCallFailed ==
    /\ Len(calls) >= 2
    /\ \/ calls[2].outcome = TransportFailure
       \/ ~is_success(calls[2].outcome.status)

\* C23: every invocation of AuthenticationMethod::start makes exactly one
\* outbound HTTP call, to <start>/start_authentication, on the direct path
\* and on the attribute-shim path alike, and never tries again: a status
\* other than success or a transport failure is returned as an error after
\* that one call.
C23_AuthStartCallsOnce ==
    StartCalled =>
        /\ Cardinality(SendsTo("/start_authentication")) = 1
        /\ calls[1].ev = "send"
        /\ calls[1].to = AuthEndpoint(config.auth_methods[req.auth_method])
        /\ Cardinality(RecvsFrom("/start_authentication")) <= 1
        /\ Len(calls) >= 2 =>
              /\ calls[2].ev = "recv"
              /\ calls[2].to = calls[1].to
        /\ (StartReturned /\ AuthCallFailed) =>
              /\ ~response.ok
              /\ response.err = "Reqwest"
              /\ Len(calls) = 2 \/ pc = "shim_wait"

\* A start on the attribute-shim path whose one call came back with 500 and
\* a well-formed body, and which returned an error.
C23_Witness ==
    /\ StartReturned
    /\ ShimApplies
    /\ pc = "done"
    /\ Len(calls) = 2
    /\ calls[2].outcome # TransportFailure
    /\ calls[2].outcome.status = 500
    /\ calls[2].outcome.body # Unparseable
    /\ ~response.ok

(***************************************************************************)
(* Properties of the outbound calls of a start request (Spec).             *)
(***************************************************************************)
Sends == {i \in DOMAIN calls : calls[i].ev = "send"}

\* An outbound call has ended without a usable answer.
Failed(outcome) ==
    \/ outcome = TransportFailure
    \/ ~is_success(outcome.status)
    \/ outcome.body = Unparseable

\* C24: every start request (Full, Auth-only, Comm-only, the comm fallback
\* included) makes at most two outbound HTTP calls, strictly one after the
\* other (a call is issued only when the one before it has been answered),
\* and no call that failed is issued again.
C24_AtMostTwoCallsInOrder ==
    /\ Cardinality(Sends) <= 2
    /\ \A i \in DOMAIN calls :
          calls[i].ev = IF i % 2 = 1 THEN "send" ELSE "recv"
    /\ \A i \in DOMAIN calls :
          calls[i].ev = "recv" => calls[i].to = calls[i - 1].to
    /\ \A i \in Sends, j \in Sends : i # j => calls[i].to # calls[j].to
    /\ \A i \in DOMAIN calls :
          (calls[i].ev = "recv" /\ Failed(calls[i].outcome)) =>
              \A j \in Sends : j > i => calls[j].to # calls[i].to
    /\ pc = "done" => Len(calls) \in {0, 2, 4}
    /\ pc \in {"comm_wait", "auth_wait", "attr_wait"} => Len(calls) \in {1, 3}

\* A Comm-only start on the fallback path that made its two calls, the
\* second of which failed, and ended.
C24_Witness ==
    /\ CommOnlyResolves
    /\ pc = "done"
    /\ Len(calls) = 4
    /\ calls[4].outcome = TransportFailure
    /\ ~response.ok

(***************************************************************************)
(* Properties of what the caller is sent (Spec).                           *)
(***************************************************************************)
\* A start request was parsed, in one of the three shapes.
Started == pc # "idle" /\ req.kind \in {"full", "auth_only", "comm_only"}

PurposeUnknown == req.purpose \notin DOMAIN config.purposes

\* The method tags of the request that are not registered or that the
\* purpose does not allow.
BadMethodTags ==
    LET p == config.purposes[req.purpose] IN
    (IF req.kind \in {"full", "auth_only"}
            /\ (\/ req.auth_method \notin DOMAIN config.auth_methods
                \/ req.auth_method \notin Range(p.allowed_auth))
       THEN {req.auth_method} ELSE {})
    \cup
    (IF req.kind \in {"full", "comm_only"}
            /\ (\/ req.comm_method \notin DOMAIN config.comm_methods
                \/ req.comm_method \notin Range(p.allowed_comm))
       THEN {req.comm_method} ELSE {})

\* The caller was sent a bare 400, and no call was made.
RefusedAsClientError ==
    /\ pc = "done"
    /\ calls = <<>>
    /\ reply = [status |-> 400]

\* C25: an unknown purpose tag yields NoSuchPurpose, an unknown or
\* disallowed method tag yields NoSuchMethod; both reach the caller as a
\* client error (HTTP 400, bad request), never as a server error, and
\* nothing is tried again: no call goes out.
C25_LookupFailuresAreClientErrors ==
    Started =>
        /\ PurposeUnknown =>
              /\ response = Err("NoSuchPurpose", req.purpose)
              /\ RefusedAsClientError
        /\ (~PurposeUnknown /\ BadMethodTags # {}) =>
              /\ ~response.ok
              /\ response.err = "NoSuchMethod"
              /\ response.arg \in BadMethodTags
              /\ RefusedAsClientError
        /\ (pc = "done" /\ ~response.ok
                /\ response.err \in {"NoSuchPurpose", "NoSuchMethod"}) =>
              /\ PurposeUnknown \/ BadMethodTags # {}
              /\ reply.status \notin 500..599

\* A Comm-only start for a known purpose with a registered comm method that
\* the purpose does not allow, answered with 400.
C25_Witness ==
    /\ Started
    /\ req.kind = "comm_only"
    /\ ~PurposeUnknown
    /\ req.comm_method \in DOMAIN config.comm_methods
    /\ BadMethodTags = {req.comm_method}
    /\ response = Err("NoSuchMethod", req.comm_method)
    /\ RefusedAsClientError

\* A call to a provider's start endpoint has failed: in transport, with a
\* status outside 2xx, or with a body that does not parse.
StartCallFailed ==
    \E i \in RecvsFrom("/start_communication")
                \cup RecvsFrom("/start_authentication") :
        Failed(calls[i].outcome)

\* C26: upstream failures are indistinguishable to the caller: however a
\* call to a provider failed (transport failure, timeout, status outside
\* 2xx, unparseable body) and whichever provider failed, the caller is sent
\* the same generic server error, a bare 500 without upstream detail.
C26_UpstreamFailuresLookAlike ==
    (pc = "done" /\ StartCallFailed) => reply = [status |-> 500]

\* A Full start whose comm provider answered 500 and whose caller was sent
\* a client_url, where a transport failure of the same call gets a 500.
C26_Witness ==
    /\ pc = "done"
    /\ req.kind = "full"
    /\ CommNon2xx # {}
    /\ response.ok
    /\ reply.status \in {200, 303}

\* C27: the start result goes to the caller as a JSON body {client_url} when
\* the Accept header of the request is application/json and as an HTTP
\* redirect to client_url otherwise; in both the URL is the client_url that
\* the orchestration returned.
C27_JsonOrRedirectBySameUrl ==
    (pc = "done" /\ response.ok) =>
        /\ DOMAIN response.val = {"client_url"}
        /\ reply = IF inbound.accept = Some("application/json")
                     THEN [status |-> 200,
                           content_type |-> "application/json",
                           body |-> [client_url |-> response.val.client_url]]
                     ELSE [status |-> 303,
                           location |-> response.val.client_url]

\* An Auth-only start that asked for JSON and was sent the auth provider's
\* client_url as a JSON body.
C27_Witness ==
    /\ pc = "done"
    /\ response.ok
    /\ req.kind = "auth_only"
    /\ inbound.accept = Some("application/json")
    /\ reply.status = 200
    /\ reply.body = [client_url |-> calls[2].outcome.body.client_url]

(***************************************************************************)
(* Properties of session_options (SpecOptions).                            *)
(***************************************************************************)
OptionsAsked == pc = "done" /\ inbound.route = "session_options"

\* The descriptors are those of the methods that the tags name in the
\* registry, one for each place of the allow-list and in its order.
DescribesExactly(described, allowed, registry) ==
    /\ DOMAIN described = DOMAIN allowed
    /\ \A i \in DOMAIN allowed :
          /\ allowed[i] \in DOMAIN registry
          /\ described[i] = [tag |-> allowed[i],
                             name |-> registry[allowed[i]].name,
                             image_path |-> registry[allowed[i]].image_path]

\* C28: session_options for a known purpose returns exactly the descriptors
\* (tag, name, image path) of the methods in the purpose's allowed_auth and
\* allowed_comm lists, one for each allow-listed tag and no others; for an
\* unknown purpose it returns an error, not an empty list.
C28_OptionsAreTheAllowListed ==
    OptionsAsked =>
        IF inbound.purpose \in DOMAIN config.purposes
          THEN LET p == config.purposes[inbound.purpose] IN
               /\ response.ok
               /\ DOMAIN response.val = {"auth_methods", "comm_methods"}
               /\ DescribesExactly(response.val.auth_methods, p.allowed_auth,
                                   config.auth_methods)
               /\ DescribesExactly(response.val.comm_methods, p.allowed_comm,
                                   config.comm_methods)
               /\ reply = [status |-> 200,
                           content_type |-> "application/json",
                           body |-> response.val]
          ELSE /\ response = Err("NoSuchPurpose", inbound.purpose)
               /\ reply = [status |-> 400]

\* The options of a purpose that allows one of two registered auth methods
\* and one of two registered comm methods.
C28_Witness ==
    /\ OptionsAsked
    /\ response.ok
    /\ Cardinality(DOMAIN config.auth_methods) = 2
    /\ Cardinality(DOMAIN config.comm_methods) = 2
    /\ Len(response.val.auth_methods) = 1
    /\ Len(response.val.comm_methods) = 1
    /\ response.val.auth_methods[1].tag = "irma"
    /\ response.val.comm_methods[1].tag = "chat"

(***************************************************************************)
(* Properties of the repeated use of a state token (SpecShim).             *)
(***************************************************************************)
\* A callback has been answered with a redirect, and its token is still
\* inside its validity.
UsedAndStillValid ==
    /\ Redirected
    /\ now < Secs(inbound.state.payload["exp"].num)

\* The handler is called once more, with the token of the callback before.
CalledAgain ==
    /\ pc = "shim_done"
    /\ pc' \in {"shim_wait", "shim_done"}
    /\ now' = now
    /\ inbound'.state = inbound.state

\* The last result posted.
LastPost == calls[CHOOSE i \in ShimPosts : \A j \in ShimPosts : j <= i]

\* C30: state tokens are not single-use.  When the callback is handled a
\* second time with the same valid token inside its validity, it succeeds
\* again: the result it is given is posted to the same attribute-delivery
\* URL, and the redirect that follows goes to the same continuation; nothing
\* that the first use recorded stands in the way of the second.
C30_TokenCanBeUsedAgain ==
    /\ [][(UsedAndStillValid /\ CalledAgain) =>
            /\ pc' = "shim_wait"
            /\ calls' = Append(calls, Send(LastPost.to,
                                           AttrPost(inbound'.result)))]_vars
    /\ [](Redirected =>
            /\ response.val
                  = Redirect(inbound.state.payload["continuation"].str)
            /\ \A i \in ShimPosts :
                  calls[i].to
                      = UrlEndpoint(inbound.state.payload["attr_url"].str))

\* The token of a start used twice, the second time later than the first
\* and with another result, and answered with a redirect both times.
C30_Witness ==
    /\ CallbackOfStart
    /\ Redirected
    /\ Cardinality(ShimPosts) = 2
    /\ \E i \in ShimPosts : calls[i].body # LastPost.body
    /\ dec.at > enc.at
    /\ response = Ok(Redirect(inbound.state.payload["continuation"].str))

(***************************************************************************)
(* Properties of the shared state (SpecServe).                             *)
(***************************************************************************)
\* The registries, the keys and the urls of the CoreConfig stay as boot
\* left them.
RegistriesAndKeysUnchanged ==
    /\ config' = config
    /\ raw' = raw
    /\ keyorder' = keyorder
    /\ booted' = booted

\* A step belongs to one request: a step of the request being handled
\* leaves the lookup of the other request as it is, and a lookup of the
\* other request leaves the request being handled, its calls and its
\* result as they are.
StepOfOneRequest ==
    \/ UNCHANGED lookup
    \/ UNCHANGED <<startVars, codecVars>>

RunAsNone == req.kind = "none"

\* C31 (as stated): a body is tried as Full, then as Auth-only, then as
\* Comm-only, and is run as the first shape it fits; it is refused only if it
\* fits none of them.  A form body is run as Full, a JWT body as Auth-only
\* or not at all.
C31_FirstShapeInOrderRuns ==
    /\ Arrived("json") =>
          LET body == inbound.body
              full == HasAll(body, FullFields)
              auth_only == HasAll(body, AuthOnlyFields)
              comm_only == HasAll(body, CommOnlyFields)
          IN  /\ full => req.kind = "full"
              /\ (~full /\ auth_only) => req.kind = "auth_only"
              /\ (~full /\ ~auth_only /\ comm_only) => req.kind = "comm_only"
              /\ RunAsNone => FitsNoShape(body)
    /\ Arrived("form") => req.kind = "full"
    /\ Arrived("jwt") => req.kind \in {"auth_only", "none"}

\* C31 (amended): a JSON body is tried as Full, then as Comm-only, and the
\* Auth-only shape is not tried on it; it is run as the first of the two that
\* it fits and refused as a bad request exactly if it fits neither.  A body
\* run as Full is never run as Comm-only: its first call is the plain start
\* of the comm provider, without the auth result, and only a Full start calls
\* the auth provider.  A form body is run as Full, a JWT body as Auth-only or
\* not at all.
C31_FullThenCommOnlyOnJson ==
    /\ Arrived("json") =>
          LET body == inbound.body
              full == HasAll(body, FullFields)
              comm_only == HasAll(body, CommOnlyFields)
          IN  /\ full => req.kind = "full"
              /\ (~full /\ comm_only) => req.kind = "comm_only"
              /\ (~full /\ ~comm_only) =>
                    RunAsNone /\ RejectedWith(BadRequest)
              /\ (req.kind = "full" /\ calls # <<>>) =>
                    /\ calls[1].to.path = "/start_communication"
                    /\ calls[1].body = comm_start_request(req.purpose)
              /\ SendsTo("/start_authentication") # {} => req.kind = "full"
    /\ Arrived("form") => req.kind = "full"
    /\ Arrived("jwt") => req.kind \in {"auth_only", "none"}

\* A JSON body with purpose, auth method, comm method and an auth result was
\* run as a Full start: the comm provider was started without the auth
\* result and the auth provider was called.
C31_Witness ==
    /\ Arrived("json")
    /\ HasAll(inbound.body, FullFields \cup {"auth_result"})
    /\ req.kind = "full"
    /\ pc = "done"
    /\ response.ok
    /\ calls[1].body = comm_start_request(req.purpose)
    /\ SendsTo("/start_authentication") # {}

(***************************************************************************)
(* C32: the order of the two calls of a Full start, and what follows a     *)
(* failure of either.                                                      *)
(***************************************************************************)
\* A Full start is under way or has ended.
FullRun == pc # "idle" /\ req.kind = "full"

\* The call to the comm provider has ended in failure.
CommCallFailed == Len(calls) >= 2 /\ Failed(calls[2].outcome)

\* The call to the auth provider, made after the comm provider's answer, has
\* ended in failure.
AuthCallAfterCommFailed == Len(calls) >= 4 /\ Failed(calls[4].outcome)

\* C32: in a Full start the auth provider is called only after the call to
\* the comm provider has come back successfully.  If the comm call fails (in
\* transport, with a status outside 2xx, or with a body that does not parse)
\* the request ends with an error and without a call to the auth provider;
\* if the auth call fails after that, the request ends with an error and no
\* further call is made to the comm provider.
C32_AuthOnlyAfterCommSucceeded ==
    FullRun =>
        /\ \A i \in SendsTo("/start_authentication") :
              /\ i = 3
              /\ calls[2].ev = "recv"
              /\ calls[2].to.path = "/start_communication"
              /\ ~Failed(calls[2].outcome)
        /\ CommCallFailed =>
              /\ pc = "done"
              /\ ~response.ok
              /\ SendsTo("/start_authentication") = {}
        /\ AuthCallAfterCommFailed =>
              /\ pc = "done"
              /\ ~response.ok
              /\ Len(calls) = 4
              /\ Cardinality(SendsTo("/start_communication")) = 1

\* A Full start whose comm provider answered 500, whose auth provider was
\* called after that and could not be reached: the request ended with the
\* transport error, four calls in all.
C32_Witness ==
    /\ FullRun
    /\ pc = "done"
    /\ Len(calls) = 4
    /\ calls[2].outcome # TransportFailure
    /\ calls[2].outcome.status = 500
    /\ calls[3].to.path = "/start_authentication"
    /\ calls[4].outcome = TransportFailure
    /\ response = Err("Reqwest", "transport")

(***************************************************************************)
(* C33: a wildcard next to other entries (SpecBoot).                       *)
(***************************************************************************)
\* The list holds the wildcard and an entry that is the tag of no method in
\* tags.
WildcardAmongStrangers(list, tags) ==
    /\ contains_wildcard(list)
    /\ \E t \in Range(list) : t # "*" /\ t \notin tags

\* The list holds each of the tags once, and nothing else.
ExactlyTheTags(list, tags) ==
    /\ Range(list) = tags
    /\ Len(list) = Cardinality(tags)

\* C33: the expansion of a wildcard replaces the whole list.  A purpose whose
\* allowed_auth (or allowed_comm) holds "*" next to other entries, tags of no
\* registered method among them, resolves to exactly the tags of the
\* registry, and the other entries never make construction fail: when
\* construction fails, a retained purpose names an absent method in a list
\* that has no wildcard.
C33_WildcardReplacesWholeList ==
    /\ booted = "ok" =>
          \A i \in DOMAIN raw.purposes :
              Retained(i) =>
                  LET rp == raw.purposes[i]
                      p == config.purposes[rp.tag]
                  IN  /\ contains_wildcard(rp.allowed_auth) =>
                            ExactlyTheTags(p.allowed_auth,
                                           DOMAIN config.auth_methods)
                      /\ contains_wildcard(rp.allowed_comm) =>
                            ExactlyTheTags(p.allowed_comm,
                                           DOMAIN config.comm_methods)
    /\ booted = "panic" =>
          \E i \in DOMAIN raw.purposes :
              Retained(i) /\ NamesAbsentMethod(i)

\* A constructed registry with a purpose whose raw allowed_auth is
\* ["digid", "*"] where no auth method digid is registered, and a purpose
\* whose raw allowed_comm is ["nope", "*"].
C33_Witness ==
    /\ booted = "ok"
    /\ \E i \in DOMAIN raw.purposes :
          /\ Retained(i)
          /\ WildcardAmongStrangers(raw.purposes[i].allowed_auth, RawAuthTags)
          /\ config.purposes[raw.purposes[i].tag].allowed_auth = <<"irma">>
    /\ \E i \in DOMAIN raw.purposes :
          /\ Retained(i)
          /\ WildcardAmongStrangers(raw.purposes[i].allowed_comm, RawCommTags)
          /\ Range(config.purposes[raw.purposes[i].tag].allowed_comm)
                = {"call", "chat"}

(***************************************************************************)
(* C34: the redirect of the callback and the POST before it (SpecShim).    *)
(***************************************************************************)
\* The continuation that the state token of the callback carries.
StoredContinuation == inbound.state.payload["continuation"].str

\* The step in which the POST of the callback ends, with its end.
PostEnds(outcome) ==
    /\ pc = "shim_wait"
    /\ pc' = "shim_done"
    /\ calls' = Append(calls, Recv(calls[Len(calls)].to, outcome))

\* C34: the callback redirects to the continuation only after the POST of the
\* result to the attr_url has ended.  While the POST is in flight the handler
\* waits; a transport failure of the POST ends the request with an error and
\* without a redirect; any answer to the POST, a status outside 2xx
\* included, is followed by the redirect to the continuation.
C34_RedirectOnlyAfterPost ==
    /\ [][pc = "shim_wait" =>
            \E outcome \in AttrPostOutcomes :
                /\ PostEnds(outcome)
                /\ IF outcome = TransportFailure
                     THEN /\ response' = Err("Reqwest", "transport")
                          /\ reply' = [status |-> 500]
                     ELSE /\ response' = Ok(Redirect(StoredContinuation))
                          /\ reply' = [status |-> 303,
                                       location |-> StoredContinuation]]_vars
    /\ [](pc = "shim_wait" =>
            /\ calls[Len(calls)].ev = "send"
            /\ calls[Len(calls)].to.path = "")
    /\ [](Redirected =>
            /\ calls[Len(calls)].ev = "recv"
            /\ calls[Len(calls)].to.path = ""
            /\ calls[Len(calls)].outcome # TransportFailure
            /\ calls[Len(calls) - 1] =
                  Send(calls[Len(calls)].to, AttrPost(inbound.result)))

\* A callback whose POST was answered with status 500 and whose caller was
\* redirected to the continuation all the same.
C34_Witness ==
    /\ Redirected
    /\ calls[Len(calls)].ev = "recv"
    /\ calls[Len(calls)].outcome # TransportFailure
    /\ calls[Len(calls)].outcome.status = 500
    /\ reply = [status |-> 303, location |-> StoredContinuation]

(***************************************************************************)
(* C35: a valid state token that lacks a key (SpecShim).                   *)
(***************************************************************************)
\* The token of the callback was signed with the internal secret and is
\* inside its validity, and the state it carries lacks the key k.
ValidTokenLacks(k) ==
    /\ InCallback
    /\ dec.result.ok
    /\ k \notin DOMAIN dec.result.val

\* C35: when the callback is given a correctly signed, unexpired token whose
\* state lacks attr_url or continuation, it answers with a bad-request error
\* (status 400); it posts nothing and redirects no one.
C35_MissingStateKeyIsBadRequest ==
    (ValidTokenLacks("attr_url") \/ ValidTokenLacks("continuation")) =>
        /\ pc = "shim_done"
        /\ response = BadRequest
        /\ reply = [status |-> 400]
        /\ ShimPosts = {}
        /\ ~Redirected

\* A token signed with the internal secret, inside its validity, with an
\* attr_url and without a continuation, answered with 400 and no call.
C35_Witness ==
    /\ ValidTokenLacks("continuation")
    /\ SignedWithInternalSecret(dec.token)
    /\ "attr_url" \in DOMAIN dec.result.val
    /\ response = BadRequest
    /\ reply = [status |-> 400]
    /\ calls = <<>>

(***************************************************************************)
(* C36: both shims at once (SpecShim).                                     *)
(***************************************************************************)
\* start was called with a tel: continuation and an attribute-delivery URL,
\* for a method that has both shim_tel_url and disable_attr_url.
BothShimsApply == StartCalled /\ TelApplies /\ ShimApplies

\* The continuation inside the state token that the provider was sent.
StoredInState == SentToAuth.continuation.token.payload["continuation"].str

\* C36: when both shims apply, the tel rewrite comes first.  The continuation
\* stored in the signed state is the UI tel URL that carries the tel: URL in
\* a signed token, not the raw tel: URL; the provider receives only
\* <server_url>/auth_attr_shim/<state token> and no attr_url; and the
\* redirect that follows the callback with that token goes to the UI tel
\* URL.
C36_TelRewriteBeforeAttrShim ==
    BothShimsApply =>
        /\ enc.kind = "encode"
        /\ enc.result.ok
        /\ IsTelShimUrl(enc.state.continuation, req.continuation)
        /\ enc.state.continuation # Plain(req.continuation)
        /\ SentToAuth = StartAuthRequest(req.attributes,
                            Concat(<<config.server_url, "/auth_attr_shim/">>,
                                   enc.result.val),
                            None)
        /\ StoredInState = enc.state.continuation
        /\ (CallbackOfStart /\ PostAnswered) =>
              /\ response.ok
              /\ response.val = Redirect(enc.state.continuation)
              /\ reply = [status |-> 303,
                          location |-> enc.state.continuation]

\* A start with both shims, followed by the callback with its token: the
\* caller was redirected to the UI tel URL.
C36_Witness ==
    /\ BothShimsApply
    /\ CallbackOfStart
    /\ PostAnswered
    /\ response.ok
    /\ IsTelShimUrl(response.val.redirect, req.continuation)
    /\ SentToAuth.attr_url = None

(***************************************************************************)
(* C37: the order in which a Full start validates its request (Spec).      *)
(***************************************************************************)
\* The tag names no registered auth (comm) method, or one that the purpose
\* of the request does not allow.
AuthMethodInvalid ==
    \/ req.auth_method \notin DOMAIN config.auth_methods
    \/ req.auth_method \notin Range(config.purposes[req.purpose].allowed_auth)

CommMethodInvalid ==
    \/ req.comm_method \notin DOMAIN config.comm_methods
    \/ req.comm_method \notin Range(config.purposes[req.purpose].allowed_comm)

\* C37: a Full start validates the purpose, then the auth method, then the
\* comm method, and reports the first failure.  An unknown purpose yields
\* NoSuchPurpose whatever the method tags are; with a known purpose an
\* invalid auth method yields NoSuchMethod naming the auth method tag, also
\* when the comm method is invalid as well; an invalid comm method is
\* reported only when the auth method is valid.
C37_FirstFailureInOrder ==
    FullRun =>
        IF PurposeUnknown
          THEN RejectedWith(Err("NoSuchPurpose", req.purpose))
        ELSE IF AuthMethodInvalid
          THEN RejectedWith(Err("NoSuchMethod", req.auth_method))
        ELSE IF CommMethodInvalid
          THEN RejectedWith(Err("NoSuchMethod", req.comm_method))
        ELSE calls # <<>>

\* A Full start with a known purpose, an auth method the purpose does not
\* allow and an unregistered comm method, refused with the auth method's
\* tag.
C37_Witness ==
    /\ FullRun
    /\ ~PurposeUnknown
    /\ AuthMethodInvalid
    /\ CommMethodInvalid
    /\ req.auth_method # req.comm_method
    /\ req.auth_method \in DOMAIN config.auth_methods
    /\ response = Err("NoSuchMethod", req.auth_method)
    /\ pc = "done"

(***************************************************************************)
(* SpecRegistry: construction from raw lists in which tags repeat, then    *)
(* one use of the registries: a lookup, or a start request (Full or JSON)  *)
(* that is handled to its end.                                             *)
(***************************************************************************)
\* The raw purpose lists: two tags, and one tag given twice.
RegistryPurposeLists ==
    { <<Purpose("report_move", <<"email">>, <<"*">>, <<"*">>),
        Purpose("request_passport", <<"email">>, <<"irma">>, <<"call">>)>>,
      <<Purpose("report_move", <<"email">>, <<"irma">>, <<"call">>),
        Purpose("report_move", <<"email", "phone">>, <<"*">>, <<"*">>)>> }

RegistryRawConfigs ==
    { RawCoreConfig(a, c, p) :
        a \in RawAuthLists, c \in RawCommLists, p \in RegistryPurposeLists }

InitRegistry ==
    /\ raw \in RegistryRawConfigs
    /\ booted = "raw"
    /\ config = EmptyConfig
    /\ keyorder = <<>>
    /\ lookup = NoLookup
    /\ InitRest

\* CoreConfig::auth_method and CoreConfig::comm_method, called on their own.
LookupAuthAlone == pc = "idle" /\ LookupAuthMeanwhile

LookupCommAlone == pc = "idle" /\ LookupCommMeanwhile

\* The handlers of /start, once the configuration is constructed.
StartFullAfterBoot == booted = "ok" /\ lookup = NoLookup /\ StartFull

SessionStartAfterBoot == booted = "ok" /\ lookup = NoLookup /\ SessionStart

NextRegistry ==
    \/ Boot
    \/ LookupAuthAlone
    \/ LookupCommAlone
    \/ StartFullAfterBoot
    \/ SessionStartAfterBoot
    \/ CommResponds
    \/ CommOnlyResponds
    \/ AttrPostResponds
    \/ AuthResponds

SpecRegistry == InitRegistry /\ [][NextRegistry]_vars

(***************************************************************************)
(* C38: keys and tags of the registries (SpecRegistry).                    *)
(***************************************************************************)
\* Each key of the map is the tag of the record stored under it.
KeyedByTag(map) == \A k \in DOMAIN map : map[k].tag = k

\* The purpose tag that the caller asked for.
RequestedPurpose ==
    IF inbound.route = "form" THEN inbound.body.purpose
                              ELSE inbound.body.fields["purpose"].str

\* A start that has called the comm provider.
CalledComm ==
    /\ pc # "idle"
    /\ req.kind \in {"full", "comm_only"}
    /\ calls # <<>>

\* C38: in every constructed registry each map key is the tag of the record
\* stored under it, for the purposes, the auth methods and the comm methods;
\* so a lookup by tag that succeeds returns a record carrying that tag, and
\* the purpose tag that the comm provider is sent is the tag that the caller
\* asked for, sent to the comm method of the tag that the caller asked for.
C38_KeysAreTags ==
    /\ booted = "ok" =>
          /\ KeyedByTag(config.purposes)
          /\ KeyedByTag(config.auth_methods)
          /\ KeyedByTag(config.comm_methods)
    /\ (lookup # NoLookup /\ lookup.result.ok) =>
          lookup.result.val.tag = lookup.tag
    /\ CalledComm =>
          /\ calls[1].to.path = "/start_communication"
          /\ calls[1].body.purpose = RequestedPurpose
          /\ calls[1].to = CommEndpoint(config.comm_methods[req.comm_method])
          /\ purpose(config, RequestedPurpose).ok
          /\ purpose(config, RequestedPurpose).val.tag = RequestedPurpose

\* A registry built from a raw list that gives the purpose tag twice and the
\* auth method tag twice, and a Comm-only start on it whose comm provider was
\* sent the tag that the caller asked for.
C38_Witness ==
    /\ booted = "ok"
    /\ Len(raw.purposes) > Cardinality(DOMAIN config.purposes)
    /\ Len(raw.auth_methods) > Cardinality(DOMAIN config.auth_methods)
    /\ CalledComm
    /\ req.kind = "comm_only"
    /\ calls[1].body.purpose = "report_move"
    /\ RequestedPurpose = "report_move"
    /\ pc = "done"
    /\ response.ok

(***************************************************************************)
(* SpecLive: the server after boot, where every outbound call ends: each   *)
(* client is built with .timeout(Duration::from_secs(5)), so a call that   *)
(* is awaited is answered or fails within that time, and the handler that  *)
(* awaits it goes on.                                                      *)
(***************************************************************************)
OutboundCallsEnd ==
    /\ WF_vars(CommResponds)
    /\ WF_vars(CommOnlyResponds)
    /\ WF_vars(AttrPostResponds)
    /\ WF_vars(AuthResponds)
    /\ WF_vars(ShimPostResponds)

SpecLive == InitServe /\ [][NextServe]_vars /\ OutboundCallsEnd

(***************************************************************************)
(* C39: every request ends (SpecLive).                                     *)
(***************************************************************************)
\* A start request or a shim callback has arrived.
RequestArrived ==
    /\ pc # "idle"
    /\ inbound.route \in {"form", "json", "jwt", "auth_attr_shim"}

\* The handler awaits an outbound call.
AwaitsCall == pc \in {"comm_wait", "auth_wait", "attr_wait", "shim_wait"}

\* The request has ended, and the caller was sent a client URL, a redirect
\* or an error.
Completed ==
    /\ pc \in {"done", "shim_done"}
    /\ reply # NoReply
    /\ IF response.ok
         THEN \/ /\ "client_url" \in DOMAIN response.val
                 /\ reply.status \in {200, 303}
              \/ /\ "redirect" \in DOMAIN response.val
                 /\ reply.status = 303
         ELSE reply.status \in {400, 500}

\* The step in which an awaited call ends without an answer.
CallEndsUnanswered ==
    /\ AwaitsCall
    /\ Len(calls') > Len(calls)
    /\ calls'[Len(calls) + 1].ev = "recv"
    /\ calls'[Len(calls) + 1].outcome = TransportFailure

\* C39: every start request and every shim callback eventually completes
\* with a client URL, a redirect or an error, given that each outbound call
\* eventually is answered or times out.  A call to a provider that does not
\* answer ends the request with a transport error, a bare 500 for the
\* caller, and the call is not issued again.
C39_EveryRequestCompletes ==
    /\ RequestArrived ~> Completed
    /\ [][CallEndsUnanswered =>
            /\ pc' \in {"done", "shim_done"}
            /\ calls' = Append(calls, calls'[Len(calls) + 1])
            /\ response' = Err("Reqwest", "transport")
            /\ reply' = [status |-> 500]]_vars

\* A Full start whose comm provider answered and whose auth provider did
\* not: the request ended with the transport error after one call to each.
C39_Witness ==
    /\ RequestArrived
    /\ req.kind = "full"
    /\ Completed
    /\ Len(calls) = 4
    /\ calls[4].outcome = TransportFailure
    /\ calls[4].to.path = "/start_authentication"
    /\ response = Err("Reqwest", "transport")
    /\ reply = [status |-> 500]
    /\ Cardinality(SendsTo("/start_authentication")) = 1
    /\ Cardinality(SendsTo("/start_communication")) = 1

====
